---- MODULE Spec2Model ----
(***************************************************************************)
(* A model of crep's history-aware trigram index.                          *)
(*                                                                         *)
(*   SpecTracker : the per-file line-delta tracker (FileDiffTracker) on    *)
(*                 its own, driven by add_lines / delete_lines, beside a   *)
(*                 per-line provenance list kept as a history variable.    *)
(*   SpecIndex   : the indexer walking the commits of one file (root      *)
(*                 tree, zero-context hunks applied in reverse, deletion,  *)
(*                 re-creation), Document's word histories and commit      *)
(*                 bitmaps, finalize, and the raw plain and regex queries  *)
(*                 over the finalized index, beside the file's content at  *)
(*                 every commit kept as a history variable.                *)
(*   SpecSearch  : the same indexer and queries over shorter files.        *)
(*   SpecPlanner : the regex planner on its own, planning a syntax tree    *)
(*                 against the index of two one-line documents, and the    *)
(*                 raw plain and regex searches over these two documents.  *)
(*   SpecMaterialize : a raw result turned into its first and last match,  *)
(*                 by the library and by the command line tool.            *)
(*   SpecDocument : Document on its own, driven by add_words,              *)
(*                 remove_words, remove_document and finalize.             *)
(*   SpecBinary  : the binary filter deciding on one blob.                 *)
(*   SpecTokenizer : the two trigram tokenizers splitting one line.        *)
(*   SpecServer  : the server's search handlers over the LRU cache of raw  *)
(*                 and materialized results.                               *)
(*   SpecContext : the context lines of the matches of one commit.         *)
(*   SpecWatcher : the repository watcher: callbacks pushing events, the   *)
(*                 debouncer's timer task and the indexer's drain;         *)
(*                 SpecWatcherFair adds the fairness of its tasks.         *)
(*   SpecPermutation : PermutationIterator call by call.                   *)
(*                                                                         *)
(* Vectors of the source are sequences; the source's 0-based positions are *)
(* kept as they are and a sequence is read at position i as v[i + 1].      *)
(* A line or a token is a sequence of one-character strings; a bitmap is a *)
(* set of naturals.                                                        *)
(***************************************************************************)
EXTENDS Integers, Sequences, FiniteSets, TLC

VARIABLES
    commit_line_end,   \* FileDiffTracker.commit_line_end : Vec<usize>
    commit_indexes,    \* FileDiffTracker.commit_indexes  : Vec<(CommitIndex, usize)>
    provenance,        \* history variable: for each present line, the <<commit, line>> that introduced it
    next_commit,       \* the commit index the next add_lines call carries
    trk_last           \* history variable: the last tracker call: op, start (the offset; 0 for a call with
                       \* count 0, which returns before reading it), count, the state before it, its result

trackerVars == <<commit_line_end, commit_indexes, provenance, next_commit, trk_last>>

VARIABLES
    tracked,           \* the file has a FileDiffTracker and a Document (made by its first add_new_lines)
    words,             \* Document.words : token -> WordIndex
    word_to_file_id_ever_contained,   \* GitIndexer: token -> bitmap of file ids
    all_words,         \* Document.all_words : <<>> is None, <<S>> is Some(the key set S)
    versions,          \* history variable: versions[c + 1] is the file's lines at commit c (<<>> when absent)
    file_exists,       \* the file is in the tree of the last commit
    rw_log,            \* history variable: the remove_words calls of the last commit
    hunk_log,          \* history variable: the hunks of the last Modified file-diff in the
                       \* order they were applied, each with the tracker it was applied
                       \* to and its add_new_lines call
    repo,              \* the repository walked: the plain and regex queries asked of it, and its last commit index and longest file, at most
    raw_results        \* the last raw query: its kind, query, planned groups and results

indexVars == <<tracked, words, word_to_file_id_ever_contained, all_words, versions,
               file_exists, rw_log, hunk_log, repo, raw_results>>

VARIABLES
    plan,              \* a regex and a text, and once planned the planner's candidates
    materialized       \* a raw result's commits and re-check outcomes, and once
                       \* materialized its first and last match

queryVars == <<plan, materialized>>

VARIABLES
    doc_commit,        \* the commit index the next Document call carries
    doc_last           \* history variable: the last Document call: op, commit_index and
                       \* the tokens whose bitmap it changed

docVars == <<doc_commit, doc_last>>

VARIABLES
    blob,              \* a blob's content and file extension, and once checked the verdict
    tokenized          \* a line, and once tokenized the tokenizer and its tokens

inputVars == <<blob, tokenized>>

VARIABLES
    search_cache,      \* SearchCache.results : the cached queries, the least recently used first
    requests,          \* for each search handler, the request it serves and how far it got
    served             \* history variable: the <<query, page>> of the requests that ended

cacheVars == <<search_cache, requests, served>>

VARIABLES
    file_paths_modified,   \* Debouncer.file_paths_modified : the FsEvents pushed and not yet drained
    is_timer_set,          \* Debouncer.is_timer_set
    indexer_signal,        \* the wakeups sent on the channel and not yet received
    timers,                \* the timer tasks: how many sleep, how many sent their wakeup and have
                           \* not cleared is_timer_set yet, and as history how many were spawned
                           \* and how many wakeups were sent
    callbacks,             \* for each notify callback thread, how far its schedule_indexer_wakeup got
    indexer,               \* the Indexer task: its position in handle_index and its last batch and report
    fs_events              \* history variable: the events pushed so far and the ids handed to the indexer

watchVars == <<file_paths_modified, is_timer_set, indexer_signal, timers, callbacks,
               indexer, fs_events>>

vars == <<commit_line_end, commit_indexes, provenance, next_commit, trk_last,
          tracked, words, word_to_file_id_ever_contained, all_words, versions,
          file_exists, rw_log, hunk_log, repo, raw_results, plan, materialized,
          doc_commit, doc_last, blob, tokenized, search_cache, requests, served,
          file_paths_modified, is_timer_set, indexer_signal, timers, callbacks,
          indexer, fs_events>>

\* the variables of SpecIndex at rest, as the other specifications keep them
IndexIdle ==
    /\ tracked = FALSE
    /\ words = <<>>
    /\ word_to_file_id_ever_contained = <<>>
    /\ all_words = <<>>
    /\ versions = <<>>
    /\ file_exists = FALSE
    /\ rw_log = <<>>
    /\ hunk_log = <<>>
    /\ raw_results = [kind |-> "none"]

\* no repository is walked
RepoIdle ==
    repo = [max_head |-> 0, max_file_lines |-> 0, queries |-> {}, regexes |-> {}]

\* nothing is planned or materialized
QueryIdle ==
    /\ plan = [kind |-> "none"]
    /\ materialized = [kind |-> "none"]

\* no Document is driven on its own
DocIdle ==
    /\ doc_commit = 0
    /\ doc_last = [op |-> "none"]

\* no blob is checked and no line tokenized on its own
InputIdle ==
    /\ blob = [kind |-> "none"]
    /\ tokenized = [kind |-> "none"]

\* no server is running
CacheIdle ==
    /\ search_cache = <<>>
    /\ requests = <<>>
    /\ served = {}

\* no watcher is running
WatchIdle ==
    /\ file_paths_modified = <<>>
    /\ is_timer_set = FALSE
    /\ indexer_signal = 0
    /\ timers = [kind |-> "none"]
    /\ callbacks = <<>>
    /\ indexer = [pc |-> "none"]
    /\ fs_events = [kind |-> "none"]

(***************************************************************************)
(* Bounds of the model.                                                    *)
(***************************************************************************)
MaxLines == 4        \* most lines a tracked file holds
MaxInitLines == 1    \* most lines of the file FileDiffTracker::new starts from
MaxTrackerCommit == 2    \* add_lines calls carry commits 1..MaxTrackerCommit
MaxFileLines == 3    \* SpecIndex: most lines of the indexed file at a commit
MaxHead == 1         \* SpecIndex: the indexed history has commits 0..MaxHead at most
MaxSearchFileLines == 2    \* SpecSearch: most lines of the indexed file at a commit
MaxSearchHead == 1         \* SpecSearch: the indexed history has commits 0..MaxSearchHead at most

(***************************************************************************)
(* Vec helpers.                                                            *)
(***************************************************************************)
\* Vec::insert(i, x), i 0-based
VecInsert(v, i, x) == SubSeq(v, 1, i) \o <<x>> \o SubSeq(v, i + 1, Len(v))

\* Vec::splice(i..i, xs): insert the sequence xs before position i
VecSplice(v, i, xs) == SubSeq(v, 1, i) \o xs \o SubSeq(v, i + 1, Len(v))

\* Vec::drain(a..b+1): remove positions a..b (inclusive, 0-based)
VecDrain(v, a, b) == SubSeq(v, 1, a) \o SubSeq(v, b + 2, Len(v))

\* a slip: the following ends are left where they were
AddFromNoShift(v, from, d) == v

\* for x in &mut v[from..] { *x += d }
AddFrom(v, from, d) == [p \in 1..Len(v) |-> IF p - 1 >= from THEN v[p] + d ELSE v[p]]

\* usize::saturating_sub
SaturatingSub(a, b) == IF a >= b THEN a - b ELSE 0

\* for x in &mut v[from..] { *x = x.saturating_sub(d) }
SubFrom(v, from, d) == [p \in 1..Len(v) |-> IF p - 1 >= from THEN SaturatingSub(v[p], d) ELSE v[p]]

Min(a, b) == IF a <= b THEN a ELSE b

(***************************************************************************)
(* FileDiffTracker                                                         *)
(***************************************************************************)
\* FileDiffTracker::new(init_commit, total_line)
TrackerNew(init_commit, total_line) ==
    [commit_line_end |-> <<total_line>>, commit_indexes |-> <<<<init_commit, 0>>>>]

\* find_chunk_index_by_line_num: binary_search over commit_line_end;
\* Ok(pos) gives pos + 1 (capped at len), Err(pos) the insertion point.
FindChunkIndexByLineNum(ends, line_num) ==
    IF \E p \in 1..Len(ends) : ends[p] = line_num
    THEN LET pos == (CHOOSE p \in 1..Len(ends) : ends[p] = line_num) - 1
         IN  IF pos + 1 < Len(ends) THEN pos + 1 ELSE Len(ends)
    ELSE Cardinality({p \in 1..Len(ends) : ends[p] < line_num})

\* get_chunk_start
GetChunkStart(ends, chunk_index) ==
    IF chunk_index = 0 THEN 0 ELSE ends[chunk_index]

\* a slip: the second part of a split chunk keeps the chunk's line_start_in_commit
AddSplitSecondStartNoAdvance(line_start, insert_start, chunk_start) ==
    line_start

\* add_lines: line_start_in_commit of the second part of a split chunk
AddSplitSecondStart(line_start, insert_start, chunk_start) ==
    line_start + (insert_start - chunk_start)

\* a slip: add_lines goes on with no line to add
AddNeverReturnsEarly(num_added_lines) == FALSE

\* add_lines: if num_added_lines == 0 { return; }
AddReturnsEarly(num_added_lines) == num_added_lines = 0

\* add_lines(insert_start, num_added_lines, commit) on tracker t
AddLines(t, insert_start, num_added_lines, commit) ==
    LET ends == t.commit_line_end
        idxs == t.commit_indexes
        chunk_index == FindChunkIndexByLineNum(ends, insert_start)
        chunk_start == GetChunkStart(ends, chunk_index)
    IN
    IF AddReturnsEarly(num_added_lines) THEN t
    ELSE IF chunk_index = Len(ends) THEN
        [commit_line_end |->
            Append(ends, (IF Len(ends) = 0 THEN 0 ELSE ends[Len(ends)]) + num_added_lines),
         commit_indexes |-> Append(idxs, commit)]
    ELSE IF chunk_start = insert_start THEN
        [commit_line_end |->
            AddFrom(VecInsert(ends, chunk_index, chunk_start + num_added_lines),
                    chunk_index + 1, num_added_lines),
         commit_indexes |-> VecInsert(idxs, chunk_index, commit)]
    ELSE
        LET prev_line_end == ends[chunk_index + 1]
            cut == [ends EXCEPT ![chunk_index + 1] = insert_start]
        IN
        [commit_line_end |->
            AddFrom(VecSplice(cut, chunk_index + 1,
                              <<insert_start + num_added_lines,
                                prev_line_end + num_added_lines>>),
                    chunk_index + 3, num_added_lines),
         commit_indexes |->
            VecSplice(idxs, chunk_index + 1,
                      <<commit,
                        <<idxs[chunk_index + 1][1],
                          AddSplitSecondStart(idxs[chunk_index + 1][2],
                                              insert_start, chunk_start)>>>>)]

\* a slip: the chunk after the hole is advanced by the offset of the hole only
DeleteSplitSecondStartNoCount(line_start, delete_start, num_deleted_lines, chunk_start) ==
    line_start + delete_start - chunk_start

\* delete_lines, case #2: line_start_in_commit of the chunk created after the hole
DeleteSplitSecondStart(line_start, delete_start, num_deleted_lines, chunk_start) ==
    line_start + delete_start + num_deleted_lines - chunk_start

\* a slip: the last chunk is advanced by the whole deletion, also when the
\* deletion began in an earlier chunk
DeleteLeftShiftWhole(delete_start, num_deleted_lines, last_chunk_start) ==
    num_deleted_lines

\* delete_lines, case #3: how far the last chunk's line_start_in_commit moves
\* when the deletion eats its left end
DeleteLeftShift(delete_start, num_deleted_lines, last_chunk_start) ==
    delete_start + num_deleted_lines - last_chunk_start

\* a slip: the end of the span is not clipped to the end of the chunk
DeleteResultOfChunkUnclipped(t, i, delete_start, num_deleted_lines) ==
    LET chunk_start == GetChunkStart(t.commit_line_end, i)
        line_end == t.commit_indexes[i + 1][2]
    IN  [commit_id |-> t.commit_indexes[i + 1][1],
         start_and_end |->
            <<line_end + (IF chunk_start < delete_start
                          THEN delete_start - chunk_start ELSE 0),
              line_end + delete_start + num_deleted_lines - chunk_start>>]

\* delete_lines: the LineDeleteResult of chunk i
DeleteResultOfChunk(t, i, delete_start, num_deleted_lines) ==
    LET ends == t.commit_line_end
        chunk_start == GetChunkStart(ends, i)
        delete_start_offset_within_chunk ==
            IF chunk_start < delete_start THEN delete_start - chunk_start ELSE 0
        delete_end_offset_within_chunk ==
            IF ends[i + 1] < delete_start + num_deleted_lines
            THEN ends[i + 1] - chunk_start
            ELSE delete_start + num_deleted_lines - chunk_start
        line_end == t.commit_indexes[i + 1][2]
    IN  [commit_id |-> t.commit_indexes[i + 1][1],
         start_and_end |-> <<line_end + delete_start_offset_within_chunk,
                             line_end + delete_end_offset_within_chunk>>]

\* delete_lines(delete_start, num_deleted_lines) on tracker t:
\* [tracker |-> the tracker afterwards, result |-> Vec<LineDeleteResult>]
DeleteLines(t, delete_start, num_deleted_lines) ==
    LET ends == t.commit_line_end
        idxs == t.commit_indexes
        delete_start_index == FindChunkIndexByLineNum(ends, delete_start)
        delete_end_index ==
            FindChunkIndexByLineNum(ends, delete_start + num_deleted_lines - 1)
        first_chunk_start == GetChunkStart(ends, delete_start_index)
    IN
    IF num_deleted_lines = 0 THEN [tracker |-> t, result |-> <<>>]
    ELSE IF /\ delete_start_index = delete_end_index
            /\ first_chunk_start < delete_start
            /\ delete_start + num_deleted_lines < ends[delete_start_index + 1]
    THEN
        LET commit_index == idxs[delete_start_index + 1][1]
            line_start == idxs[delete_start_index + 1][2]
            delete_start_pos_within_commit ==
                line_start + delete_start - first_chunk_start
        IN
        [tracker |->
            [commit_line_end |->
                SubFrom(VecInsert(ends, delete_start_index, delete_start),
                        delete_start_index + 1, num_deleted_lines),
             commit_indexes |->
                VecInsert(idxs, delete_start_index + 1,
                          <<commit_index,
                            DeleteSplitSecondStart(line_start, delete_start,
                                                   num_deleted_lines,
                                                   first_chunk_start)>>)],
         result |->
            <<[commit_id |-> commit_index,
               start_and_end |-> <<delete_start_pos_within_commit,
                                   delete_start_pos_within_commit
                                       + num_deleted_lines>>]>>]
    ELSE
        LET line_delete_result ==
                [k \in 1..(delete_end_index - delete_start_index + 1) |->
                    DeleteResultOfChunk(t, delete_start_index + k - 1,
                                        delete_start, num_deleted_lines)]
            should_delete_start ==
                /\ ends[delete_start_index + 1] - first_chunk_start
                       <= num_deleted_lines
                /\ first_chunk_start = delete_start
            should_delete_end ==
                ends[delete_end_index + 1] = delete_start + num_deleted_lines
            purge_start_index ==
                IF should_delete_start THEN delete_start_index
                ELSE delete_start_index + 1
            purge_end_index ==
                IF should_delete_end THEN delete_end_index
                ELSE SaturatingSub(delete_end_index, 1)
            last_chunk_start == GetChunkStart(ends, delete_end_index)
            idxs1 ==
                IF last_chunk_start >= delete_start
                THEN [idxs EXCEPT ![delete_end_index + 1] =
                        <<@[1], @[2] + DeleteLeftShift(delete_start,
                                                       num_deleted_lines,
                                                       last_chunk_start)>>]
                ELSE idxs
            num_line_to_delete_from_start ==
                Min(ends[delete_start_index + 1],
                    delete_start + num_deleted_lines) - delete_start
            ends1 == [ends EXCEPT ![delete_start_index + 1] =
                        @ - num_line_to_delete_from_start]
            ends2 == SubFrom(ends1, delete_start_index + 1, num_deleted_lines)
        IN
        [tracker |->
            IF purge_start_index <= purge_end_index
            THEN [commit_line_end |->
                      VecDrain(ends2, purge_start_index, purge_end_index),
                  commit_indexes |->
                      VecDrain(idxs1, purge_start_index, purge_end_index)]
            ELSE [commit_line_end |-> ends2, commit_indexes |-> idxs1],
         result |-> line_delete_result]

\* the number of lines the tracker holds
TotalLines(ends) == IF Len(ends) = 0 THEN 0 ELSE ends[Len(ends)]

\* the <<commit, line-within-commit>> the tracker reports for present line n (0-based)
TrackerLookup(t, n) ==
    LET i == FindChunkIndexByLineNum(t.commit_line_end, n)
    IN  <<t.commit_indexes[i + 1][1],
          t.commit_indexes[i + 1][2] + (n - GetChunkStart(t.commit_line_end, i))>>

\* flatten_delete_result: one WordKey <<commit, line>> per deleted line
RECURSIVE FlattenDeleteResult(_)
FlattenDeleteResult(delete_results) ==
    IF Len(delete_results) = 0 THEN <<>>
    ELSE LET r == Head(delete_results)
             start == r.start_and_end[1]
             end == r.start_and_end[2]
         IN  [k \in 1..(end - start) |-> <<r.commit_id, start + k - 1>>]
             \o FlattenDeleteResult(Tail(delete_results))

(***************************************************************************)
(* SpecTracker: the tracker driven by in-range add_lines / delete_lines.   *)
(***************************************************************************)
Tracker == [commit_line_end |-> commit_line_end, commit_indexes |-> commit_indexes]

\* the provenance list after inserting count lines <<commit, line_start + j>> before line insert_start
ProvenanceAdd(prov, insert_start, count, commit) ==
    SubSeq(prov, 1, insert_start)
        \o [k \in 1..count |-> <<commit[1], commit[2] + k - 1>>]
        \o SubSeq(prov, insert_start + 1, Len(prov))

\* the provenance list after removing count lines from line delete_start on
ProvenanceDelete(prov, delete_start, count) ==
    SubSeq(prov, 1, delete_start) \o SubSeq(prov, delete_start + count + 1, Len(prov))

InitTracker ==
    \E total_line \in 0..MaxInitLines :
        /\ commit_line_end = TrackerNew(0, total_line).commit_line_end
        /\ commit_indexes = TrackerNew(0, total_line).commit_indexes
        /\ provenance = [k \in 1..total_line |-> <<0, k - 1>>]
        /\ next_commit = 1
        /\ trk_last = [op |-> "new", start |-> 0, count |-> total_line,
                       pre |-> TrackerNew(0, total_line), pre_prov |-> <<>>,
                       result |-> <<>>]
        /\ IndexIdle
        /\ RepoIdle
        /\ DocIdle
        /\ InputIdle
        /\ CacheIdle
    /\ WatchIdle
        /\ QueryIdle

TrackerAddLines ==
    /\ next_commit <= MaxTrackerCommit
    /\ \E insert_start \in 0..(MaxLines + 1),
          num_added_lines \in 0..(MaxLines - TotalLines(commit_line_end)) :
        \* an offset past the end only comes with nothing to add
        /\ num_added_lines = 0 \/ insert_start <= TotalLines(commit_line_end)
        \* a single-hunk commit: the added lines sit at insert_start in the new version
        /\ \E t \in {AddLines(Tracker, insert_start, num_added_lines,
                                <<next_commit, insert_start>>)} :
            /\ commit_line_end' = t.commit_line_end
            /\ commit_indexes' = t.commit_indexes
            /\ provenance' = IF num_added_lines = 0 THEN provenance
                              ELSE ProvenanceAdd(provenance, insert_start,
                                                 num_added_lines,
                                                 <<next_commit, insert_start>>)
            /\ next_commit' = IF num_added_lines = 0 THEN next_commit ELSE next_commit + 1
            /\ trk_last' = [op |-> "add",
                            start |-> IF num_added_lines = 0 THEN 0 ELSE insert_start,
                            count |-> num_added_lines, pre |-> Tracker,
                            pre_prov |-> provenance, result |-> <<>>]
            /\ UNCHANGED <<indexVars, queryVars, docVars, inputVars, cacheVars, watchVars>>

TrackerDeleteLines ==
    \E delete_start \in 0..(MaxLines + 1) :
      \E num_deleted_lines \in 0..SaturatingSub(TotalLines(commit_line_end), delete_start) :
        \* an offset past the end only comes with nothing to delete
        \E r \in {DeleteLines(Tracker, delete_start, num_deleted_lines)} :
            /\ commit_line_end' = r.tracker.commit_line_end
            /\ commit_indexes' = r.tracker.commit_indexes
            /\ provenance' = IF num_deleted_lines = 0 THEN provenance
                              ELSE ProvenanceDelete(provenance, delete_start,
                                                    num_deleted_lines)
            /\ next_commit' = next_commit
            /\ trk_last' = [op |-> "delete",
                            start |-> IF num_deleted_lines = 0 THEN 0 ELSE delete_start,
                            count |-> num_deleted_lines, pre |-> Tracker,
                            pre_prov |-> provenance, result |-> r.result]
            /\ UNCHANGED <<indexVars, queryVars, docVars, inputVars, cacheVars, watchVars>>

NextTracker == TrackerAddLines \/ TrackerDeleteLines

SpecTracker == InitTracker /\ [][NextTracker]_vars

(***************************************************************************)
(* Claims about the tracker.                                               *)
(***************************************************************************)
\* C7: after any sequence of in-range add_lines and delete_lines calls, the
\* tracker reports for every present line n the <<commit, line-within-commit>>
\* that introduced it: the pair the per-line provenance list holds for n.
C7_TrackerMatchesProvenance ==
    /\ TotalLines(commit_line_end) = Len(provenance)
    /\ \A n \in 0..(Len(provenance) - 1) :
          TrackerLookup(Tracker, n) = provenance[n + 1]

\* C7 witness: lines of three different commits are present after an
\* insertion that split a run and a deletion that removed lines.
C7_Witness ==
    /\ trk_last.op = "delete"
    /\ trk_last.count > 0
    /\ Len(commit_line_end) >= 3
    /\ Cardinality({provenance[k][1] : k \in 1..Len(provenance)}) >= 3

\* the run (0-based position) of tracker t that holds present line n
RunOf(t, n) ==
    CHOOSE i \in 0..(Len(t.commit_line_end) - 1) :
        /\ GetChunkStart(t.commit_line_end, i) <= n
        /\ n < t.commit_line_end[i + 1]

RunStart(t, i) == GetChunkStart(t.commit_line_end, i)
RunEnd(t, i) == t.commit_line_end[i + 1]
RunCommit(t, i) == t.commit_indexes[i + 1][1]
RunLineStart(t, i) == t.commit_indexes[i + 1][2]

\* the runs of t that hold at least one of the lines from .. from + count - 1
RunsTouched(t, from, count) == {RunOf(t, n) : n \in from..(from + count - 1)}

\* the last call was a delete_lines that removed lines
DeletedSome == trk_last.op = "delete" /\ trk_last.count > 0

\* the tracker after the last call
Post == Tracker

\* C8: delete_lines(delete_start, count) with count > 0 removes exactly the
\* count lines from delete_start on (lines before keep their provenance,
\* lines after move up by count), returns one LineDeleteResult per affected
\* run, in order, whose commit is the run's and whose span is exactly the
\* provenance of that run's removed lines, and the span lengths sum to count.
C8_DeleteRemovesAndReports ==
    DeletedSome =>
        LET pre == trk_last.pre
            ds == trk_last.start
            n == trk_last.count
            res == trk_last.result
            touched == RunsTouched(pre, ds, n)
            first == RunOf(pre, ds)
        IN  /\ TotalLines(Post.commit_line_end) = TotalLines(pre.commit_line_end) - n
            /\ \A l \in 0..(TotalLines(Post.commit_line_end) - 1) :
                  TrackerLookup(Post, l) =
                      TrackerLookup(pre, IF l < ds THEN l ELSE l + n)
            /\ Len(res) = Cardinality(touched)
            /\ \A k \in 1..Len(res) :
                  LET i == first + k - 1
                      removed == {l \in ds..(ds + n - 1) : RunOf(pre, l) = i}
                  IN  /\ res[k].commit_id = RunCommit(pre, i)
                      /\ {<<res[k].commit_id, x>> :
                              x \in res[k].start_and_end[1]..(res[k].start_and_end[2] - 1)}
                            = {TrackerLookup(pre, l) : l \in removed}
                      /\ res[k].start_and_end[2] - res[k].start_and_end[1]
                            = Cardinality(removed)
            /\ FlattenDeleteResult(res) =
                  [k \in 1..n |-> TrackerLookup(pre, ds + k - 1)]

\* C8 witness: a deletion that removed lines of two or more runs, leaving
\* lines on both sides.
C8_Witness ==
    /\ DeletedSome
    /\ Len(trk_last.result) >= 2
    /\ trk_last.start > 0
    /\ TotalLines(commit_line_end) > trk_last.start

\* the deletion fell strictly inside run i of the tracker before the call
StrictlyInside(pre, ds, n, i) ==
    /\ RunOf(pre, ds) = i
    /\ RunStart(pre, i) < ds
    /\ ds + n < RunEnd(pre, i)

\* C9: a deletion strictly inside a single run splits it in two: the first
\* half keeps line_start_in_commit and ends at delete_start, the second half
\* carries the same commit with line_start_in_commit advanced by
\* (delete_start + count - run_start).
C9_MiddleDeleteSplits ==
    DeletedSome =>
        LET pre == trk_last.pre
            ds == trk_last.start
            n == trk_last.count
            i == RunOf(pre, ds)
        IN  StrictlyInside(pre, ds, n, i) =>
              /\ Len(Post.commit_line_end) = Len(pre.commit_line_end) + 1
              /\ RunCommit(Post, i) = RunCommit(pre, i)
              /\ RunLineStart(Post, i) = RunLineStart(pre, i)
              /\ RunEnd(Post, i) = ds
              /\ RunCommit(Post, i + 1) = RunCommit(pre, i)
              /\ RunLineStart(Post, i + 1) =
                    RunLineStart(pre, i) + (ds + n - RunStart(pre, i))
              /\ RunEnd(Post, i + 1) = RunEnd(pre, i) - n

\* C9 witness: a deletion strictly inside a run that did not start at line 0
\* of the file nor at line 0 of its commit.
C9_Witness ==
    /\ DeletedSome
    /\ LET pre == trk_last.pre
           i == RunOf(pre, trk_last.start)
       IN  /\ StrictlyInside(pre, trk_last.start, trk_last.count, i)
           /\ RunStart(pre, i) > 0

\* the deletion removed the first line of run e but not its last line
LeftEdgeOnly(pre, ds, n, e) ==
    /\ RunOf(pre, ds + n - 1) = e
    /\ RunStart(pre, e) >= ds
    /\ ds + n < RunEnd(pre, e)

\* C10: when a deletion removes lines from the left edge of a run but not up
\* to its right edge, the run survives, now starting at delete_start, with
\* line_start_in_commit advanced by the number of lines cut from its left
\* and its length reduced by that number.
C10_LeftTruncationAdvances ==
    DeletedSome =>
        LET pre == trk_last.pre
            ds == trk_last.start
            n == trk_last.count
            e == RunOf(pre, ds + n - 1)
            cut == ds + n - RunStart(pre, e)
        IN  LeftEdgeOnly(pre, ds, n, e) =>
              LET j == RunOf(Post, ds)
              IN  /\ RunStart(Post, j) = ds
                  /\ RunCommit(Post, j) = RunCommit(pre, e)
                  /\ RunLineStart(Post, j) = RunLineStart(pre, e) + cut
                  /\ RunEnd(Post, j) - RunStart(Post, j)
                        = (RunEnd(pre, e) - RunStart(pre, e)) - cut

\* C10 witness: the deletion began inside an earlier run and cut the left
\* edge of a later run that survives.
C10_Witness ==
    /\ DeletedSome
    /\ LET pre == trk_last.pre
           e == RunOf(pre, trk_last.start + trk_last.count - 1)
       IN  /\ LeftEdgeOnly(pre, trk_last.start, trk_last.count, e)
           /\ RunStart(pre, e) > trk_last.start

\* C11: for every tracker state and every offset, delete_lines(s, 0) returns
\* no span and leaves the tracker as it was, and add_lines(s, 0, p) leaves the
\* tracker as it was.
C11_ZeroCountIsNoOp ==
    (trk_last.op \in {"add", "delete"} /\ trk_last.count = 0) =>
        /\ Tracker = trk_last.pre
        /\ trk_last.result = <<>>

\* C11 witness: add_lines with nothing to add was called on a tracker of
\* several runs
C11_Witness ==
    /\ trk_last.op = "add"
    /\ trk_last.count = 0
    /\ Len(commit_line_end) >= 3

\* the tracker after a new run <<s, s + n>> of provenance p is put after the
\* first k runs of tracker t, the ends of the runs after it shifted by n
RunInserted(t, k, s, n, p) ==
    [commit_line_end |->
        SubSeq(t.commit_line_end, 1, k) \o <<s + n>>
            \o [j \in 1..(Len(t.commit_line_end) - k) |-> t.commit_line_end[k + j] + n],
     commit_indexes |->
        SubSeq(t.commit_indexes, 1, k) \o <<p>>
            \o SubSeq(t.commit_indexes, k + 1, Len(t.commit_indexes))]

\* tracker t with its run i (0-based) cut in two at line s, the second part's
\* line_start_in_commit advanced by the size of the first part
RunSplit(t, i, s) ==
    [commit_line_end |-> VecInsert(t.commit_line_end, i, s),
     commit_indexes |->
        VecInsert(t.commit_indexes, i + 1,
                  <<t.commit_indexes[i + 1][1],
                    t.commit_indexes[i + 1][2] + (s - GetChunkStart(t.commit_line_end, i))>>)]

\* line s is strictly inside run i (0-based) of tracker t
InsideRun(t, i, s) ==
    GetChunkStart(t.commit_line_end, i) < s /\ s < t.commit_line_end[i + 1]

\* C12: add_lines(insert_start, count, p) with count > 0 puts one new run of
\* count lines and provenance p at insert_start: a run holding insert_start
\* strictly inside is split there, the second part's line_start_in_commit
\* advanced by the size of the first part; the ends of all following runs are
\* shifted by count; an insertion at end-of-file appends the new run.
C12_AddInsertsOneRun ==
    (trk_last.op = "add" /\ trk_last.count > 0) =>
        LET pre == trk_last.pre
            s == trk_last.start
            n == trk_last.count
            p == provenance[s + 1]
            runs == Len(pre.commit_line_end)
        IN  /\ \A i \in 0..(runs - 1) :
                   InsideRun(pre, i, s) =>
                       Tracker = RunInserted(RunSplit(pre, i, s), i + 1, s, n, p)
            /\ (~\E i \in 0..(runs - 1) : InsideRun(pre, i, s)) =>
                   \E k \in 0..runs :
                       /\ GetChunkStart(pre.commit_line_end, k) = s
                       /\ Tracker = RunInserted(pre, k, s, n, p)
            /\ s = TotalLines(pre.commit_line_end) =>
                   Tracker = RunInserted(pre, runs, s, n, p)

\* C12 witness: lines were added strictly inside a run that other runs follow
C12_Witness ==
    /\ trk_last.op = "add"
    /\ trk_last.count > 0
    /\ \E i \in 0..(Len(trk_last.pre.commit_line_end) - 2) :
           InsideRun(trk_last.pre, i, trk_last.start)

(***************************************************************************)
(* Tokens and bitmaps.                                                     *)
(***************************************************************************)
Range(f) == {f[x] : x \in DOMAIN f}

Max(a, b) == IF a < b THEN b ELSE a

\* RoaringBitmap::max of a non-empty bitmap
BitmapMax(bm) == CHOOSE x \in bm : \A y \in bm : y <= x

\* RoaringBitmap::min of a non-empty bitmap
BitmapMin(bm) == CHOOSE x \in bm : \A y \in bm : x <= y

\* RoaringBitmap::insert_range(a..b): the half-open range, empty when b <= a
InsertRange(bm, a, b) == bm \cup {x \in a..(b - 1) : TRUE}

\* split_by_trigram: the ring of the three last char positions makes the word
\* ending at char i start two chars earlier, or at the line's start for the
\* two first chars: the 1- and 2-char prefixes, then every 3-char window
SplitByTrigram(line) == {SubSeq(line, Max(1, i - 2), i) : i \in 1..Len(line)}

\* a slip: the line numbers are not moved to the base line
SplitLinesToTokensNoBase(lines, line_start_index) ==
    LET total_words == UNION {SplitByTrigram(lines[n]) : n \in 1..Len(lines)}
    IN  [w \in total_words |->
            {n - 1 : n \in {m \in 1..Len(lines) : w \in SplitByTrigram(lines[m])}}]

\* split_lines_to_tokens(lines, line_start_index, Trigram).word_pos:
\* token -> the set of line numbers (line_num + line_start_index) holding it
SplitLinesToTokens(lines, line_start_index) ==
    LET total_words == UNION {SplitByTrigram(lines[n]) : n \in 1..Len(lines)}
    IN  [w \in total_words |->
            {(n - 1) + line_start_index : n \in {m \in 1..Len(lines) :
                                                   w \in SplitByTrigram(lines[m])}}]

\* t occurs in line as a substring
OccursIn(t, line) ==
    \E i \in 1..(Len(line) - Len(t) + 1) : SubSeq(line, i, i + Len(t) - 1) = t

\* t occurs in some line of a file content
ContentContains(content, t) == \E n \in 1..Len(content) : OccursIn(t, content[n])

(***************************************************************************)
(* Document (crep-indexer/src/index/document.rs).                          *)
(* A word_history is a function WordKey <<commit_id, line>> -> priority,   *)
(* a CommitEndPriority(Option<usize>) being <<>> for None, <<n>> for       *)
(* Some(n).                                                                *)
(***************************************************************************)
\* Ord for CommitEndPriority: p < q; None is the greatest
PriorityLess(p, q) ==
    IF p = <<>> THEN FALSE
    ELSE IF q = <<>> THEN TRUE
    ELSE p[1] < q[1]

\* PriorityQueue::peek on a non-empty queue: the greatest priority
Peek(word_history) ==
    CHOOSE p \in Range(word_history) :
        \A q \in Range(word_history) : ~PriorityLess(p, q)

\* WordIndex::default()
WordIndexDefault == [word_history |-> <<>>, commit_inclutivity |-> {}]

\* a slip: add_words pushes the first line of each token only
AddWordsFirstLine(ws, commit_index, word_to_lines) ==
    [w \in (DOMAIN ws) \cup (DOMAIN word_to_lines) |->
        IF w \in DOMAIN word_to_lines
        THEN LET word_index == IF w \in DOMAIN ws THEN ws[w] ELSE WordIndexDefault
                 keys == {<<commit_index, line>> :
                             line \in {l \in word_to_lines[w] :
                                           \A m \in word_to_lines[w] : l <= m}}
             IN  [word_history |->
                      [k \in (DOMAIN word_index.word_history) \cup keys |->
                          IF k \in keys THEN <<>> ELSE word_index.word_history[k]],
                  commit_inclutivity |->
                      word_index.commit_inclutivity \cup {commit_index}]
        ELSE ws[w]]

\* Document::add_words(commit_index, words): words maps a token to its lines
AddWords(ws, commit_index, word_to_lines) ==
    [w \in (DOMAIN ws) \cup (DOMAIN word_to_lines) |->
        IF w \in DOMAIN word_to_lines
        THEN LET word_index == IF w \in DOMAIN ws THEN ws[w] ELSE WordIndexDefault
                 keys == {<<commit_index, line>> : line \in word_to_lines[w]}
             IN  [word_history |->
                      [k \in (DOMAIN word_index.word_history) \cup keys |->
                          IF k \in keys THEN <<>> ELSE word_index.word_history[k]],
                  commit_inclutivity |->
                      word_index.commit_inclutivity \cup {commit_index}]
        ELSE ws[w]]

\* Document::update_commit_inclutivity(commit_index, word) on the word's index
UpdateCommitInclutivity(word_index, commit_index) ==
    IF DOMAIN word_index.word_history = {} THEN word_index
    ELSE LET last_commit == Peek(word_index.word_history)
             end_commit_index ==
                 IF last_commit = <<>> THEN commit_index ELSE last_commit[1]
         IN  [word_index EXCEPT !.commit_inclutivity =
                 IF @ = {} THEN {end_commit_index}
                 ELSE InsertRange(@, BitmapMax(@), end_commit_index + 1)]

\* Document::remove_words(commit_index, words): words maps a token to the
\* WordKeys to end; a key the queue does not hold is left alone by
\* change_priority, a token the document does not hold is skipped
RemoveWords(ws, commit_index, items) ==
    [w \in DOMAIN ws |->
        IF w \in DOMAIN items
        THEN UpdateCommitInclutivity(
                 [ws[w] EXCEPT !.word_history =
                     [k \in DOMAIN @ |->
                         IF k \in items[w] THEN <<commit_index - 1>> ELSE @[k]]],
                 commit_index)
        ELSE ws[w]]

\* a slip: remove_document drops the bitmap of every word it ends
RemoveDocumentDropsBits(ws, commit_index) ==
    [w \in DOMAIN ws |->
        IF \E k \in DOMAIN ws[w].word_history : ws[w].word_history[k] = <<>>
        THEN [word_history |->
                  [k \in DOMAIN ws[w].word_history |->
                      IF ws[w].word_history[k] = <<>>
                      THEN <<commit_index - 1>> ELSE ws[w].word_history[k]],
              commit_inclutivity |-> {}]
        ELSE ws[w]]

\* a slip: remove_document fills the bitmap through commit_index itself
RemoveDocumentThroughCommit(ws, commit_index) ==
    [w \in DOMAIN ws |->
        IF \E k \in DOMAIN ws[w].word_history : ws[w].word_history[k] = <<>>
        THEN [word_history |->
                  [k \in DOMAIN ws[w].word_history |->
                      IF ws[w].word_history[k] = <<>>
                      THEN <<commit_index - 1>> ELSE ws[w].word_history[k]],
              commit_inclutivity |->
                  InsertRange(ws[w].commit_inclutivity,
                              BitmapMax(ws[w].commit_inclutivity), commit_index + 1)]
        ELSE ws[w]]

\* Document::remove_document(commit_index)
RemoveDocument(ws, commit_index) ==
    [w \in DOMAIN ws |->
        LET is_commit_end_modified == \E k \in DOMAIN ws[w].word_history :
                                          ws[w].word_history[k] = <<>>
        IN  IF is_commit_end_modified
            THEN [word_history |->
                      [k \in DOMAIN ws[w].word_history |->
                          IF ws[w].word_history[k] = <<>>
                          THEN <<commit_index - 1>> ELSE ws[w].word_history[k]],
                  commit_inclutivity |->
                      InsertRange(ws[w].commit_inclutivity,
                                  BitmapMax(ws[w].commit_inclutivity), commit_index)]
            ELSE ws[w]]

\* a slip: finalize stops the fill below commit_index
FinalizeBelowHead(ws, commit_index) ==
    [w \in DOMAIN ws |->
        IF commit_index \in ws[w].commit_inclutivity THEN ws[w]
        ELSE IF /\ DOMAIN ws[w].word_history # {}
                /\ Peek(ws[w].word_history) = <<>>
        THEN [ws[w] EXCEPT !.commit_inclutivity =
                 InsertRange(@, BitmapMax(@), commit_index)]
        ELSE ws[w]]

\* Document::finalize(commit_index), the bitmaps
Finalize(ws, commit_index) ==
    [w \in DOMAIN ws |->
        IF commit_index \in ws[w].commit_inclutivity THEN ws[w]
        ELSE IF /\ DOMAIN ws[w].word_history # {}
                /\ Peek(ws[w].word_history) = <<>>
        THEN [ws[w] EXCEPT !.commit_inclutivity =
                 IF @ = {} THEN {commit_index}
                 ELSE InsertRange(@, BitmapMax(@), commit_index + 1)]
        ELSE ws[w]]

(***************************************************************************)
(* GitIndexer on one file (src/index/git_indexer.rs). The indexer state is *)
(* threaded through the hunks of a commit as a record ix; tokens come from  *)
(* the trigram tokenizer of the Document's crate.                          *)
(***************************************************************************)
\* the one file's id
FileId == 0

\* the indexer state as a record
Indexer ==
    [tracked |-> tracked, tracker |-> Tracker, words |-> words,
     ever |-> word_to_file_id_ever_contained, log |-> <<>>,
     last_add |-> <<>>, hunks |-> <<>>]

\* GitIndexer::add_new_lines(commit_index, file_id, prev_line_start, new_line_start, lines)
IndexerAddNewLines(ix, commit_index, prev_line_start, new_line_start, lines) ==
    LET word_to_lines == SplitLinesToTokens(lines, new_line_start)
    IN  [ix EXCEPT
            !.tracked = TRUE,
            !.tracker =
                IF ix.tracked
                THEN AddLines(ix.tracker, prev_line_start, Len(lines),
                              <<commit_index, new_line_start>>)
                ELSE TrackerNew(commit_index, Len(lines)),
            !.ever =
                [w \in (DOMAIN ix.ever) \cup (DOMAIN word_to_lines) |->
                    (IF w \in DOMAIN ix.ever THEN ix.ever[w] ELSE {})
                        \cup (IF w \in DOMAIN word_to_lines THEN {FileId} ELSE {})],
            !.words = AddWords(ix.words, commit_index, word_to_lines),
            !.last_add = <<[insert_start |-> prev_line_start,
                            num_added_lines |-> Len(lines),
                            commit |-> <<commit_index, new_line_start>>,
                            commit_index |-> commit_index,
                            word_to_lines |-> word_to_lines,
                            pre |-> ix.words,
                            post |-> AddWords(ix.words, commit_index, word_to_lines)]>>]

\* GitIndexer::delete_lines(commit_index, file_id, delete_line_start, lines);
\* each remove_words call is logged with the words before and after it
IndexerDeleteLines(ix, commit_index, delete_line_start, lines) ==
    LET delete_result == DeleteLines(ix.tracker, delete_line_start, Len(lines))
        word_key_for_each_deleted_line == FlattenDeleteResult(delete_result.result)
        tokens == SplitLinesToTokens(lines, 0)
        word_to_lines ==
            [w \in DOMAIN tokens |->
                {word_key_for_each_deleted_line[line + 1] : line \in tokens[w]}]
        removed == RemoveWords(ix.words, commit_index, word_to_lines)
    IN  [ix EXCEPT
            !.tracker = delete_result.tracker,
            !.words = removed,
            !.log = Append(@, [commit_index |-> commit_index, items |-> word_to_lines,
                               pre |-> ix.words, post |-> removed])]

\* GitIndexer::delete_entire_file(commit_index, file_id); delete_all empties the tracker
DeleteEntireFile(ix, commit_index) ==
    [ix EXCEPT
        !.tracker = [commit_line_end |-> <<>>, commit_indexes |-> <<>>],
        !.words = RemoveDocument(ix.words, commit_index)]

\* index_git_delta, Delta::Modified: the calls made for one hunk
HunkCalls(ix, hunk, commit_index) ==
    IF hunk.prev_line_count > 0
    THEN LET deleted == IndexerDeleteLines(ix, commit_index,
                                           hunk.prev_line_start_num - 1,
                                           hunk.deleted_lines)
         IN  IF hunk.new_line_count > 0
             THEN IndexerAddNewLines(deleted, commit_index,
                                     hunk.prev_line_start_num - 1,
                                     hunk.new_line_start_num - 1, hunk.added_lines)
             ELSE deleted
    ELSE IndexerAddNewLines(ix, commit_index, hunk.prev_line_start_num,
                            hunk.new_line_start_num - 1, hunk.added_lines)

\* index_git_delta, Delta::Modified: one hunk, logged with its add_new_lines call
IndexHunk(ix, hunk, commit_index) ==
    LET done == HunkCalls([ix EXCEPT !.last_add = <<>>], hunk, commit_index)
    IN  [done EXCEPT !.hunks = Append(@, [hunk |-> hunk, add |-> done.last_add,
                                          tracker |-> ix.tracker])]

\* a slip: the hunks are applied in the order the diff delivers them
RECURSIVE IndexGitDeltaModifiedForward(_, _, _)
IndexGitDeltaModifiedForward(ix, hunks, commit_index) ==
    IF Len(hunks) = 0 THEN ix
    ELSE IndexGitDeltaModifiedForward(IndexHunk(ix, Head(hunks), commit_index),
                                      Tail(hunks), commit_index)

\* index_git_delta, Delta::Modified: for hunk in hunks.iter().rev()
RECURSIVE IndexGitDeltaModified(_, _, _)
IndexGitDeltaModified(ix, hunks, commit_index) ==
    IF Len(hunks) = 0 THEN ix
    ELSE IndexGitDeltaModified(IndexHunk(ix, hunks[Len(hunks)], commit_index),
                               SubSeq(hunks, 1, Len(hunks) - 1), commit_index)

(***************************************************************************)
(* The diff the indexer is handed (index_diff, context_lines(0)): a        *)
(* longest common subsequence of the old and new lines is kept, and every  *)
(* gap between two kept lines is one hunk with git's header conventions (a *)
(* side with count 0 names the line before the gap, 0 at the file's top).  *)
(***************************************************************************)
\* the elements of a set of integers in increasing order
SortedSeq(S) ==
    [i \in 1..Cardinality(S) |->
        CHOOSE x \in S : Cardinality({y \in S : y < x}) = i - 1]

\* the length of a longest common subsequence
RECURSIVE Lcs(_, _)
Lcs(old, new) ==
    IF Len(old) = 0 \/ Len(new) = 0 THEN 0
    ELSE IF Head(old) = Head(new) THEN 1 + Lcs(Tail(old), Tail(new))
    ELSE Max(Lcs(Tail(old), new), Lcs(old, Tail(new)))

\* the kept lines: positions K of old matched in order with positions P of new
Alignments(old, new) ==
    {al \in (SUBSET (1..Len(old))) \X (SUBSET (1..Len(new))) :
        /\ Cardinality(al[1]) = Cardinality(al[2])
        /\ Cardinality(al[1]) = Lcs(old, new)
        /\ \A i \in 1..Cardinality(al[1]) :
               old[SortedSeq(al[1])[i]] = new[SortedSeq(al[2])[i]]}

\* the GitDelta of the gap after the i-th kept line (i = 0: before the first)
GitDeltaOfGap(old, new, ks, ps, i) ==
    LET a == IF i = 0 THEN 0 ELSE ks[i]
        b == IF i = Len(ks) THEN Len(old) + 1 ELSE ks[i + 1]
        pa == IF i = 0 THEN 0 ELSE ps[i]
        pb == IF i = Len(ps) THEN Len(new) + 1 ELSE ps[i + 1]
    IN  [prev_line_start_num |-> IF b - a - 1 > 0 THEN a + 1 ELSE a,
         prev_line_count |-> b - a - 1,
         new_line_start_num |-> IF pb - pa - 1 > 0 THEN pa + 1 ELSE pa,
         new_line_count |-> pb - pa - 1,
         added_lines |-> SubSeq(new, pa + 1, pb - 1),
         deleted_lines |-> SubSeq(old, a + 1, b - 1)]

IsChange(hunk) == hunk.prev_line_count > 0 \/ hunk.new_line_count > 0

\* the hunks of a file-diff, in the order the diff engine delivers them
GitDeltas(old, new, al) ==
    LET ks == SortedSeq(al[1])
        ps == SortedSeq(al[2])
    IN  SelectSeq([i \in 1..(Len(ks) + 1) |-> GitDeltaOfGap(old, new, ks, ps, i - 1)],
                  IsChange)

(***************************************************************************)
(* SpecIndex: the commit walk over one file, then finalize.                *)
(***************************************************************************)
\* the lines a file is made of
LineSet == {<<"a", "b", "c">>, <<"b", "c", "d">>}

\* the file contents of the model
Contents == UNION {[1..n -> LineSet] : n \in 0..repo.max_file_lines}

\* the 3-char tokens of the model's lines
AllTrigrams == {w \in UNION {SplitByTrigram(line) : line \in LineSet} : Len(w) = 3}

\* the index of the last commit walked
HeadCommit == Len(versions) - 1

\* the file's lines at the last commit walked
LastContent == versions[Len(versions)]

\* a syntax tree node (regex_syntax::hir::HirKind) as a record
HirEmpty == [kind |-> "Empty"]
HirLiteral(literal) == [kind |-> "Literal", literal |-> literal]
HirClass(class) == [kind |-> "Class", class |-> class]
HirRepetition(min, max, sub) == [kind |-> "Repetition", min |-> min, max |-> max, sub |-> sub]
HirConcat(hirs) == [kind |-> "Concat", hirs |-> hirs]
HirAlternation(hirs) == [kind |-> "Alternation", hirs |-> hirs]
HirCapture(sub) == [kind |-> "Capture", sub |-> sub]
HirLook == [kind |-> "Look"]

\* the plain queries asked: a trigram, a word of two trigrams, a word shorter
\* than a trigram, two words
PlainQueries ==
    {<<"a", "b", "c">>,
     <<"a", "b", "c", "d">>,
     <<"b", "c">>,
     <<"a", "b", "c", " ", "b", "c", "d">>}

\* the plain queries at the edges: the empty one, blanks only, and words
\* of 1 and 3 chars that no indexed line holds
EdgeQueries ==
    {<<>>,
     <<" ">>,
     <<" ", " ">>,
     <<"e">>,
     <<"e", "e", "e">>}

\* the regex queries asked: abc, abc|bcd, ab[cd], abcd?
RegexQueries ==
    {HirLiteral(<<"a", "b", "c">>),
     HirAlternation(<<HirLiteral(<<"a", "b", "c">>), HirLiteral(<<"b", "c", "d">>)>>),
     HirConcat(<<HirLiteral(<<"a", "b">>), HirClass({"c", "d"})>>),
     HirConcat(<<HirLiteral(<<"a", "b", "c">>),
                 HirRepetition(0, <<1>>, HirLiteral(<<"d">>))>>)}

\* the regex queries at the edges: (?:abc)?, one of whose groups has no
\* trigrams, and those with a capture group or a look-around assertion: (abc),
\* ^abc, abc|(bcd), (abc)+, (ab)c, e(ab)
EdgeRegexes ==
    {HirRepetition(0, <<1>>, HirLiteral(<<"a", "b", "c">>)),
     HirCapture(HirLiteral(<<"a", "b", "c">>)),
     HirConcat(<<HirLook, HirLiteral(<<"a", "b", "c">>)>>),
     HirAlternation(<<HirLiteral(<<"a", "b", "c">>),
                      HirCapture(HirLiteral(<<"b", "c", "d">>))>>),
     HirRepetition(1, <<>>, HirCapture(HirLiteral(<<"a", "b", "c">>))),
     HirConcat(<<HirCapture(HirLiteral(<<"a", "b">>)), HirLiteral(<<"c">>)>>),
     HirConcat(<<HirLiteral(<<"e">>), HirCapture(HirLiteral(<<"a", "b">>))>>)}

\* the empty indexer, about to walk a repository within the given limits and
\* to be asked the given plain queries and regex queries
InitIndexer(max_head, max_file_lines, queries, regexes) ==
    /\ commit_line_end = <<>>
    /\ commit_indexes = <<>>
    /\ provenance = <<>>
    /\ next_commit = 0
    /\ trk_last = [op |-> "none"]
    /\ IndexIdle
    /\ QueryIdle
    /\ DocIdle
    /\ InputIdle
    /\ CacheIdle
    /\ WatchIdle
    /\ repo = [max_head |-> max_head, max_file_lines |-> max_file_lines,
               queries |-> queries, regexes |-> regexes]

InitIndex ==
    InitIndexer(MaxHead, MaxFileLines, PlainQueries \cup EdgeQueries,
                RegexQueries \cup EdgeRegexes)

InitSearch ==
    InitIndexer(MaxSearchHead, MaxSearchFileLines, PlainQueries, RegexQueries)

\* the indexer state ix and the file's new content become the state after a commit
CommitWalked(ix, content, exists) ==
    /\ tracked' = ix.tracked
    /\ commit_line_end' = ix.tracker.commit_line_end
    /\ commit_indexes' = ix.tracker.commit_indexes
    /\ words' = ix.words
    /\ word_to_file_id_ever_contained' = ix.ever
    /\ versions' = Append(versions, content)
    /\ file_exists' = exists
    /\ rw_log' = ix.log
    /\ hunk_log' = ix.hunks
    /\ UNCHANGED <<all_words, raw_results, repo, provenance, next_commit, trk_last,
                   queryVars, docVars, inputVars, cacheVars, watchVars>>

\* index_history, the root commit: index_tree adds the whole blob at commit 0
IndexTree ==
    /\ versions = <<>>
    /\ \E content \in Contents :
        \E ix \in {IndexerAddNewLines(Indexer, 0, 0, 0, content)} :
            CommitWalked(ix, content, TRUE)

\* index_history, the root commit: index_tree over a tree without the file
IndexTreeWithoutFile ==
    /\ versions = <<>>
    /\ versions' = <<<<>>>>
    /\ UNCHANGED <<tracked, commit_line_end, commit_indexes, words,
                   word_to_file_id_ever_contained, file_exists, all_words, rw_log,
                   hunk_log,
                   raw_results, repo, provenance, next_commit, trk_last,
                   queryVars, docVars, inputVars, cacheVars, watchVars>>

\* a later commit can be walked
CanWalk ==
    /\ versions # <<>>
    /\ all_words = <<>>
    /\ Len(versions) <= repo.max_head

\* index_diff, Delta::Modified: the hunks of the file-diff, last hunk first
CommitModified ==
    /\ CanWalk
    /\ file_exists
    /\ \E new \in Contents \ {LastContent} :
        \E al \in Alignments(LastContent, new) :
            \E ix \in {IndexGitDeltaModified(Indexer, GitDeltas(LastContent, new, al),
                                             Len(versions))} :
                CommitWalked(ix, new, TRUE)

\* index_diff, a commit whose diff has no delta for the file
CommitUntouched ==
    /\ CanWalk
    /\ versions' = Append(versions, LastContent)
    /\ rw_log' = <<>>
    /\ hunk_log' = <<>>
    /\ UNCHANGED <<tracked, commit_line_end, commit_indexes, words,
                   word_to_file_id_ever_contained, file_exists, all_words,
                   raw_results, repo, provenance, next_commit, trk_last,
                   queryVars, docVars, inputVars, cacheVars, watchVars>>

\* index_diff, Delta::Deleted: the one hunk removing every line
CommitDeleted ==
    /\ CanWalk
    /\ file_exists
    /\ Len(LastContent) > 0
    /\ \E ix \in {DeleteEntireFile(Indexer, Len(versions))} :
        CommitWalked(ix, <<>>, FALSE)

\* index_diff, Delta::Added for the file created again: one hunk -0,0 +1,n
CommitAdded ==
    /\ CanWalk
    /\ ~file_exists
    /\ \E content \in Contents \ {<<>>} :
        \E ix \in {IndexerAddNewLines(Indexer, Len(versions), 0, 0, content)} :
            CommitWalked(ix, content, TRUE)

\* when all commits are processed: document.finalize(head), all_words built
FinalizeIndex ==
    /\ tracked
    /\ all_words = <<>>
    /\ words' = Finalize(words, HeadCommit)
    /\ all_words' = <<DOMAIN words>>
    /\ rw_log' = <<>>
    /\ hunk_log' = <<>>
    /\ UNCHANGED <<tracked, commit_line_end, commit_indexes,
                   word_to_file_id_ever_contained, versions, file_exists,
                   raw_results, repo, provenance, next_commit, trk_last,
                   queryVars, docVars, inputVars, cacheVars, watchVars>>

(***************************************************************************)
(* The regex planner (crep-indexer/src/search/regex_search.rs).            *)
(* A CharacterClass is the set of chars it admits, Char(c) being {c}; a    *)
(* Trigram is a sequence of at most three of them; a SearchPartTrigram is  *)
(* its trigrams (docs_to_check, which the searcher never reads, is left    *)
(* out); RegexSearchCandidates is the sequence of its parts. An operator   *)
(* that can panic returns [status, v], status being "ok", "panic" or, for  *)
(* the unsupported nodes, "err".                                           *)
(***************************************************************************)
Ok(v) == [status |-> "ok", v |-> v]

Panic == [status |-> "panic", v |-> <<>>]

Err == [status |-> "err", v |-> <<>>]

\* impl FromStr for Trigram
TrigramFromStr(str) == [i \in 1..Len(str) |-> {str[i]}]

\* Trigram::from_long_string
TrigramFromLongString(str) ==
    IF Len(str) < 3 THEN <<TrigramFromStr(str)>>
    ELSE [i \in 1..(Len(str) - 2) |-> TrigramFromStr(SubSeq(str, i, i + 2))]

\* Trigram::from(class): one position carrying the character class
TrigramFromClass(class) == <<class>>

\* Trigram::concat_small
TrigramConcatSmall(left, right) == left \o right

\* a slip: the last 3-gram of left . right is left out
TrigramConcatButLast(left, right) ==
    [start \in 1..(Len(left) + Len(right) - 3) |->
        SubSeq(left \o right, start, start + 2)]

\* Trigram::concat: the 3-grams of left . right at start_index 0..total_len-3
TrigramConcat(left, right) ==
    [start \in 1..(Len(left) + Len(right) - 2) |->
        SubSeq(left \o right, start, start + 2)]

\* merge_trigrams: the loop over trigrams.iter().skip(1)
RECURSIVE MergeFold(_, _)
MergeFold(merged, rest) ==
    IF Len(rest) = 0 THEN Ok(merged)
    ELSE IF Len(merged) = 0 \/ Len(Head(rest)) = 0 THEN Panic
    ELSE LET left == merged[Len(merged)]
             popped == SubSeq(merged, 1, Len(merged) - 1)
             trigram == Head(rest)
             first_on_right == trigram[1]
         IN  IF Len(first_on_right) <= 3 - Len(left)
             THEN IF Len(trigram) # 1 THEN Panic
                  ELSE MergeFold(Append(popped, TrigramConcatSmall(left, first_on_right)),
                                 Tail(rest))
             ELSE MergeFold(popped \o TrigramConcat(left, first_on_right)
                                   \o Tail(trigram),
                            Tail(rest))

\* merge_trigrams(trigrams): trigrams[0] of an empty slice panics
MergeTrigrams(trigrams) ==
    IF Len(trigrams) = 0 THEN Panic ELSE MergeFold(trigrams[1], Tail(trigrams))

\* PermutationIterator over limit, as the sequence of the vectors it yields
RECURSIVE PermutationVectors(_)
PermutationVectors(limit) ==
    IF Len(limit) = 0 THEN <<<<>>>>
    ELSE LET rest == PermutationVectors(Tail(limit))
         IN  [k \in 1..(limit[1] * Len(rest)) |->
                 <<(k - 1) \div Len(rest)>> \o rest[((k - 1) % Len(rest)) + 1]]

\* the values of a sequence of results, or the first result that is not "ok"
Collect(results) ==
    IF \A i \in 1..Len(results) : results[i].status = "ok"
    THEN Ok([i \in 1..Len(results) |-> results[i].v])
    ELSE results[CHOOSE i \in 1..Len(results) :
                     /\ results[i].status # "ok"
                     /\ \A j \in 1..(i - 1) : results[j].status = "ok"]

\* a trigram list is not empty
HasTrigrams(trigrams) == Len(trigrams) > 0

\* RegexSearchCandidates::concat(parts)
CandidatesConcat(parts) ==
    IF \E i \in 1..Len(parts) : Len(parts[i]) = 0 THEN Ok(<<>>)
    ELSE LET permutations == PermutationVectors([i \in 1..Len(parts) |-> Len(parts[i])])
         IN  Collect([k \in 1..Len(permutations) |->
                 MergeTrigrams(SelectSeq([index \in 1..Len(parts) |->
                                             parts[index][permutations[k][index] + 1]],
                                         HasTrigrams))])

\* the sequences of a sequence of sequences, one after the other
RECURSIVE Flatten(_)
Flatten(seqs) == IF Len(seqs) = 0 THEN <<>> ELSE Head(seqs) \o Flatten(Tail(seqs))

\* RegexSearchCandidates::alternation(parts)
CandidatesAlternation(parts) == Ok(Flatten(parts))

\* RegexSearchCandidates::repeat, one repeat count
RepeatTimes(part, repeat) ==
    IF repeat = 0 THEN Ok(<<<<>>>>)
    ELSE IF Len(part) = 0 THEN Panic    \* PermutationIterator::new: a zero limit
    ELSE LET permutations == PermutationVectors([i \in 1..repeat |-> Len(part)])
         IN  Collect([k \in 1..Len(permutations) |->
                 MergeTrigrams([i \in 1..repeat |-> part[permutations[k][i] + 1]])])

\* a slip: the repeat counts are capped at 2
CandidatesRepeatCappedAtTwo(part, min, max) ==
    LET min_repeat_count == Min(min, 2)
        max_repeat_count == Min(IF max = <<>> THEN 2 ELSE max[1], 2)
        counts == [k \in 1..(max_repeat_count - min_repeat_count + 1) |->
                      RepeatTimes(part, min_repeat_count + k - 1)]
        collected == Collect(counts)
    IN  IF collected.status = "ok" THEN Ok(Flatten(collected.v)) ELSE collected

\* RegexSearchCandidates::repeat(part, min, max); max is <<>> for None, <<n>> for Some(n)
CandidatesRepeat(part, min, max) ==
    LET min_repeat_count == Min(min, 3)
        max_repeat_count == Min(IF max = <<>> THEN 3 ELSE max[1], 3)
        counts == [k \in 1..(max_repeat_count - min_repeat_count + 1) |->
                      RepeatTimes(part, min_repeat_count + k - 1)]
        collected == Collect(counts)
    IN  IF collected.status = "ok" THEN Ok(Flatten(collected.v)) ELSE collected

(***************************************************************************)
(* GitSearcher (crep-indexer/src/search/git_searcher.rs) over the          *)
(* finalized index of the one file. An Option is <<>> for None and <<x>>   *)
(* for Some(x). The word_to_docs_cache only replays what the same word     *)
(* gave before over the same index and is not modelled.                    *)
(***************************************************************************)
\* a slip: the bitmaps are merged instead of intersected
UnionInsteadOfIntersect(bitmaps) == UNION bitmaps

\* intersect_bitmaps / intersect_bitmap_vec of a non-empty list of bitmaps
IntersectBitmaps(bitmaps) == {x \in UNION bitmaps : \A b \in bitmaps : x \in b}

\* union_bitmaps of a non-empty list of bitmaps
UnionBitmaps(bitmaps) == UNION bitmaps

\* find_all_words_containing_key(key, all_words), key of 1 or 2 chars: the
\* 3-char keys matching "k.|.k", or "k..|.k.|..k"
FindAllWordsContainingKey(key, keys) ==
    {t \in keys : Len(t) = 3 /\ OccursIn(key, t)}

\* get_document_bitmap_containing_word(word): Option<bitmap of file ids>;
\* union_bitmaps(..).unwrap() panics when no key contains a short word
GetDocumentBitmapContainingWord(word, ever) ==
    IF Len(word) <= 2
    THEN LET docs == {ever[t] : t \in FindAllWordsContainingKey(word, DOMAIN ever)}
         IN  IF docs = {} THEN Panic ELSE Ok(<<UnionBitmaps(docs)>>)
    ELSE LET trigrams == {t \in SplitByTrigram(word) : Len(t) >= 3}
         IN  IF \E t \in trigrams : t \notin DOMAIN ever THEN Ok(<<>>)
             ELSE Ok(<<IntersectBitmaps({ever[t] : t \in trigrams})>>)

\* find_matching_commit_histories_in_doc(doc, word): Vec<(word, bitmap)>
FindMatchingCommitHistoriesInDoc(doc_words, doc_all_words, word) ==
    IF Len(word) < 3
    THEN LET words_to_find == FindAllWordsContainingKey(word, doc_all_words)
             found == {doc_words[w].commit_inclutivity :
                          w \in words_to_find \cap DOMAIN doc_words}
         IN  IF found = {} THEN Panic
             ELSE Ok(<<[word |-> word, bitmap |-> IntersectBitmaps(found)]>>)
    ELSE LET trigrams == {t \in SplitByTrigram(word) : Len(t) >= 3}
         IN  IF \E w \in trigrams : w \notin DOMAIN doc_words THEN Ok(<<>>)
             ELSE Ok(<<[word |-> word,
                        bitmap |-> IntersectBitmaps(
                            {doc_words[w].commit_inclutivity : w \in trigrams})]>>)

\* find_overlapping_document(bitmaps): bitmaps holds (word, docs) per query word
FindOverlappingDocument(bitmaps, has_doc, doc_words, doc_all_words) ==
    IF Len(bitmaps) = 0 THEN Panic      \* intersect_bitmaps(&[]).unwrap()
    ELSE
    LET intersected_docs == IntersectBitmaps({bitmaps[i].docs : i \in 1..Len(bitmaps)})
        commit_histories_per_word ==
            Collect([i \in 1..Len(bitmaps) |->
                FindMatchingCommitHistoriesInDoc(doc_words, doc_all_words,
                                                 bitmaps[i].word)])
    IN  IF FileId \notin intersected_docs \/ ~has_doc THEN Ok(<<>>)
        ELSE IF commit_histories_per_word.status # "ok" THEN Panic
        ELSE IF \E i \in 1..Len(bitmaps) : Len(commit_histories_per_word.v[i]) = 0
        THEN Panic                      \* PermutationIterator::new: a zero limit
        ELSE LET histories == commit_histories_per_word.v
                 permutations ==
                     PermutationVectors([i \in 1..Len(histories) |-> Len(histories[i])])
                 found ==
                     [k \in 1..Len(permutations) |->
                         [file_id |-> FileId,
                          query |-> [index \in 1..Len(histories) |->
                                        histories[index][permutations[k][index] + 1].word],
                          overlapped_commits |->
                              IntersectBitmaps(
                                  {histories[index][permutations[k][index] + 1].bitmap :
                                       index \in 1..Len(histories)})]]
             IN  Ok(SelectSeq(found, LAMBDA r : r.overlapped_commits # {}))

\* str::split_whitespace from position i on, word being the chars gathered
RECURSIVE SplitWhitespaceFrom(_, _, _)
SplitWhitespaceFrom(text, i, word) ==
    IF i > Len(text) THEN (IF word = <<>> THEN <<>> ELSE <<word>>)
    ELSE IF text[i] = " "
    THEN (IF word = <<>> THEN <<>> ELSE <<word>>) \o SplitWhitespaceFrom(text, i + 1, <<>>)
    ELSE SplitWhitespaceFrom(text, i + 1, Append(word, text[i]))

\* query.split_whitespace(): the words of the query
SplitWhitespace(text) == SplitWhitespaceFrom(text, 1, <<>>)

\* GitSearcher::search(query): query is the sequence of its chars
Search(query, ever, has_doc, doc_words, doc_all_words) ==
    IF Len(query) = 0 THEN Ok(<<>>)
    ELSE LET query_words == SplitWhitespace(query)
             results == [i \in 1..Len(query_words) |->
                            GetDocumentBitmapContainingWord(query_words[i], ever)]
             stop == {i \in 1..Len(query_words) :
                         results[i].status = "panic" \/ results[i].v = <<>>}
             first_stop == CHOOSE i \in stop : \A j \in stop : i <= j
         IN  IF stop # {}
             THEN IF results[first_stop].status = "panic" THEN Panic ELSE Ok(<<>>)
             ELSE FindOverlappingDocument(
                      [i \in 1..Len(query_words) |->
                          [word |-> query_words[i], docs |-> results[i].v[1]]],
                      has_doc, doc_words, doc_all_words)

\* build_candidates_from_hir(hir)
RECURSIVE BuildCandidatesFromHir(_, _)
BuildCandidatesFromHir(hir, ever) ==
    CASE hir.kind = "Empty" -> Ok(<<>>)
      [] hir.kind = "Literal" ->
            LET bitmap == GetDocumentBitmapContainingWord(hir.literal, ever)
            IN  IF bitmap.status = "panic" THEN Panic
                ELSE IF bitmap.v # <<>> /\ bitmap.v[1] # {}
                THEN Ok(<<TrigramFromLongString(hir.literal)>>)
                ELSE Ok(<<>>)
      [] hir.kind = "Repetition" ->
            LET candidate == BuildCandidatesFromHir(hir.sub, ever)
            IN  IF candidate.status # "ok" THEN candidate
                ELSE CandidatesRepeat(candidate.v, hir.min, hir.max)
      [] hir.kind = "Concat" ->
            LET candidates == Collect([i \in 1..Len(hir.hirs) |->
                                          BuildCandidatesFromHir(hir.hirs[i], ever)])
            IN  IF candidates.status # "ok" THEN candidates
                ELSE CandidatesConcat(candidates.v)
      [] hir.kind = "Alternation" ->
            LET candidates == Collect([i \in 1..Len(hir.hirs) |->
                                          BuildCandidatesFromHir(hir.hirs[i], ever)])
            IN  IF candidates.status # "ok" THEN candidates
                ELSE CandidatesAlternation(candidates.v)
      [] hir.kind = "Class" -> Ok(<<<<TrigramFromClass(hir.class)>>>>)
      [] OTHER -> Err

\* Trigram::create_matching_regex_or_string: a trigram of plain chars is the
\* String of its chars, one carrying a class is a Regex
IsPlainTrigram(key) == \A i \in 1..Len(key) : Cardinality(key[i]) = 1

\* Trigram::to_string of a trigram of plain chars
TrigramToString(key) == [i \in 1..Len(key) |-> CHOOSE c \in key[i] : TRUE]

\* find_matching_trigram(key, all_words): the String itself, or the keys of
\* all_words the Regex matches
FindMatchingTrigram(key, keys) ==
    IF IsPlainTrigram(key) THEN {TrigramToString(key)}
    ELSE {t \in keys : Len(t) = Len(key) /\ \A i \in 1..Len(key) : t[i] \in key[i]}

\* find_matching_commit_histories_in_doc_from_trigrams(doc, trigrams): Option<bitmap>
FindMatchingCommitHistoriesInDocFromTrigrams(doc_words, doc_all_words, trigrams) ==
    LET histories ==
            [i \in 1..Len(trigrams) |->
                {doc_words[t].commit_inclutivity :
                    t \in FindMatchingTrigram(trigrams[i], doc_all_words)
                              \cap DOMAIN doc_words}]
    IN  IF Len(trigrams) = 0 THEN <<>>
        ELSE IF \E i \in 1..Len(trigrams) : histories[i] = {} THEN <<>>
        ELSE <<IntersectBitmaps({UnionBitmaps(histories[i]) : i \in 1..Len(trigrams)})>>

\* regex_search, one candidate: the raw results its trigrams give
RegexSearchCandidate(trigrams, ever, has_doc, doc_words, doc_all_words) ==
    LET docs == [i \in 1..Len(trigrams) |->
                    {ever[t] : t \in FindMatchingTrigram(trigrams[i], DOMAIN ever)
                                         \cap DOMAIN ever}]
        matching_history ==
            FindMatchingCommitHistoriesInDocFromTrigrams(doc_words, doc_all_words,
                                                         trigrams)
    IN  IF Len(trigrams) = 0 THEN <<>>
        ELSE IF \E i \in 1..Len(trigrams) :
                    docs[i] = {} \/ UnionBitmaps(docs[i]) = {} THEN <<>>
        ELSE IF FileId \notin IntersectBitmaps({UnionBitmaps(docs[i]) :
                                                    i \in 1..Len(trigrams)})
        THEN <<>>
        ELSE IF ~has_doc \/ matching_history = <<>> THEN <<>>
        ELSE <<[file_id |-> FileId, trigrams |-> trigrams,
                overlapped_commits |-> matching_history[1]]>>

\* GitSearcher::regex_search(query), query being the parsed syntax tree:
\* [status, v |-> the raw results, candidates |-> the planned groups]
RegexSearch(hir, ever, has_doc, doc_words, doc_all_words) ==
    LET candidates == BuildCandidatesFromHir(hir, ever)
    IN  IF candidates.status # "ok"
        THEN [status |-> candidates.status, v |-> <<>>, candidates |-> <<>>]
        ELSE [status |-> "ok",
              v |-> Flatten([k \in 1..Len(candidates.v) |->
                        RegexSearchCandidate(candidates.v[k], ever, has_doc,
                                             doc_words, doc_all_words)]),
              candidates |-> candidates.v]

(***************************************************************************)
(* Queries against the finished index.                                     *)
(***************************************************************************)

\* searcher.search(query) on the finished index.  A query reads the index
\* alone and its raw results replace the last ones, so a behaviour asks one
\* query of the index it built: every index meets every query all the same.
SearchPlain ==
    /\ all_words # <<>>
    /\ raw_results.kind = "none"
    /\ \E query \in repo.queries :
        \E r \in {Search(query, word_to_file_id_ever_contained, tracked, words,
                         all_words[1])} :
            raw_results' = [kind |-> "plain", text |-> query,
                            query |-> SplitWhitespace(query), status |-> r.status,
                            results |-> r.v]
    /\ UNCHANGED <<tracked, commit_line_end, commit_indexes, words,
                   word_to_file_id_ever_contained, all_words, versions, file_exists,
                   rw_log, hunk_log, repo, provenance, next_commit, trk_last,
                   queryVars, docVars, inputVars, cacheVars, watchVars>>

\* searcher.regex_search(query) on the finished index
SearchRegex ==
    /\ all_words # <<>>
    /\ raw_results.kind = "none"
    /\ \E hir \in repo.regexes :
        \E r \in {RegexSearch(hir, word_to_file_id_ever_contained, tracked, words,
                              all_words[1])} :
            raw_results' = [kind |-> "regex", query |-> hir, status |-> r.status,
                            results |-> r.v, candidates |-> r.candidates]
    /\ UNCHANGED <<tracked, commit_line_end, commit_indexes, words,
                   word_to_file_id_ever_contained, all_words, versions, file_exists,
                   rw_log, hunk_log, repo, provenance, next_commit, trk_last,
                   queryVars, docVars, inputVars, cacheVars, watchVars>>

NextIndex ==
    \/ IndexTree
    \/ IndexTreeWithoutFile
    \/ CommitModified
    \/ CommitUntouched
    \/ CommitDeleted
    \/ CommitAdded
    \/ FinalizeIndex
    \/ SearchPlain
    \/ SearchRegex

\* histories of files of up to MaxFileLines lines: long enough for a commit
\* with two hunks
SpecIndex == InitIndex /\ [][NextIndex]_vars

\* the same indexer and searcher over shorter files
SpecSearch == InitSearch /\ [][NextIndex]_vars

\* commit_inclutivity of token t in the document, empty for a token never seen
CommitInclusivity(t) ==
    IF t \in DOMAIN words THEN words[t].commit_inclutivity ELSE {}

\* C1: once finalize(head) has run, for every trigram t the document's
\* commit_inclusivity(t) is exactly the set of commits c in 0..head whose
\* version of the file contains t.
C1_InclusivityIsExact ==
    all_words # <<>> =>
        \A t \in AllTrigrams :
            CommitInclusivity(t) =
                {c \in 0..HeadCommit : ContentContains(versions[c + 1], t)}

\* a word index still has a live introduction
IsLive(word_index) ==
    \E k \in DOMAIN word_index.word_history : word_index.word_history[k] = <<>>

\* C2: remove_words(c, items): for each affected trigram t, if no live
\* introduction of t is left the bits from max(commit_inclusivity[t]) up to
\* c-1 are set (the end c-1 itself read either way), and if one is left
\* commit_inclusivity[t] is unchanged.
C2_RemoveWordsFillsOnlyClosedRuns ==
    \A i \in 1..Len(rw_log) :
        \A t \in (DOMAIN rw_log[i].items) \cap (DOMAIN rw_log[i].pre) :
            LET c == rw_log[i].commit_index
                before == rw_log[i].pre[t].commit_inclutivity
                after == rw_log[i].post[t].commit_inclutivity
            IN  IF IsLive(rw_log[i].post[t])
                THEN after = before
                ELSE /\ InsertRange(before, BitmapMax(before), c - 1) \subseteq after
                     /\ after \subseteq InsertRange(before, BitmapMax(before), c)

\* the raw results of the last query, as a set
RawResults == {raw_results.results[i] : i \in 1..Len(raw_results.results)}

KeysOfWord(word) ==
    IF Len(word) < 3 THEN FindAllWordsContainingKey(word, DOMAIN words)
    ELSE {t \in SplitByTrigram(word) : Len(t) = 3}

ContentMatchesTrigram(content, trigram) ==
    \E l \in 1..Len(content) :
        \E i \in 1..(Len(content[l]) - Len(trigram) + 1) :
            \A k \in 1..Len(trigram) : content[l][i + k - 1] \in trigram[k]

\* C5: for a regex query, every commit c in the overlapped commits of a raw
\* result is a commit whose version of the file contains all trigrams of at
\* least one planned group.
C5_RegexResultsHoldAGroup ==
    (raw_results.kind = "regex" /\ raw_results.status = "ok") =>
        \A r \in RawResults :
            \A c \in r.overlapped_commits :
                \E k \in 1..Len(raw_results.candidates) :
                    \A j \in 1..Len(raw_results.candidates[k]) :
                        ContentMatchesTrigram(versions[c + 1],
                                              raw_results.candidates[k][j])

(***************************************************************************)
(* The planner on its own: a regex is planned against the index of two     *)
(* one-line documents, the text (file 0) and another (file 1).             *)
(***************************************************************************)

\* the position after each match of hir in text that starts at position i
RECURSIVE MatchEnds(_, _, _), ConcatEnds(_, _, _), RepetitionEnds(_, _, _, _)
MatchEnds(hir, text, i) ==
    CASE hir.kind = "Empty" -> {i}
      [] hir.kind = "Literal" ->
            IF /\ i + Len(hir.literal) - 1 <= Len(text)
               /\ SubSeq(text, i, i + Len(hir.literal) - 1) = hir.literal
            THEN {i + Len(hir.literal)} ELSE {}
      [] hir.kind = "Class" ->
            IF i <= Len(text) /\ text[i] \in hir.class THEN {i + 1} ELSE {}
      [] hir.kind = "Concat" -> ConcatEnds(hir.hirs, text, {i})
      [] hir.kind = "Alternation" ->
            UNION {MatchEnds(hir.hirs[k], text, i) : k \in 1..Len(hir.hirs)}
      [] hir.kind = "Repetition" -> RepetitionEnds(hir, text, {i}, 0)
      [] OTHER -> {}

\* the positions after matches of the nodes hirs, one after the other, from starts
ConcatEnds(hirs, text, starts) ==
    IF Len(hirs) = 0 \/ starts = {} THEN starts
    ELSE ConcatEnds(Tail(hirs), text,
                    UNION {MatchEnds(Head(hirs), text, s) : s \in starts})

\* the positions after min..max matches of hir.sub, starts being those after n
RepetitionEnds(hir, text, starts, n) ==
    (IF n >= hir.min THEN starts ELSE {})
    \cup (IF starts = {} \/ n >= hir.min + Len(text) \/ (hir.max # <<>> /\ n >= hir.max[1])
          THEN {}
          ELSE RepetitionEnds(hir, text,
                              UNION {MatchEnds(hir.sub, text, s) : s \in starts}, n + 1))

\* the text contains a match of the regex
ContainsMatch(hir, text) == \E i \in 1..(Len(text) + 1) : MatchEnds(hir, text, i) # {}

Str1(a) == <<a>>
Str2(a, b) == <<a, b>>
Str3(a, b, c) == <<a, b, c>>

\* the regexes planned: "", abc, abcd, ab+c, abc|bcd, |abc, (abc)?, (ab){2},
\* abcd?, a(bc)*d, a(bc|cb){3,}d, ab[cd], (ab)*, (ab|cd){4,5}, (abc|bcd){1,2},
\* abcc(cbbc|d); the groups do not capture
PlannerRegexes ==
    {HirEmpty,
     HirLiteral(Str3("a", "b", "c")),
     HirLiteral(<<"a", "b", "c", "d">>),
     HirConcat(<<HirLiteral(Str1("a")), HirRepetition(1, <<>>, HirLiteral(Str1("b"))),
                 HirLiteral(Str1("c"))>>),
     HirAlternation(<<HirLiteral(Str3("a", "b", "c")), HirLiteral(Str3("b", "c", "d"))>>),
     HirAlternation(<<HirEmpty, HirLiteral(Str3("a", "b", "c"))>>),
     HirRepetition(0, <<1>>, HirLiteral(Str3("a", "b", "c"))),
     HirRepetition(2, <<2>>, HirLiteral(Str2("a", "b"))),
     HirConcat(<<HirLiteral(Str3("a", "b", "c")),
                 HirRepetition(0, <<1>>, HirLiteral(Str1("d")))>>),
     HirConcat(<<HirLiteral(Str1("a")), HirRepetition(0, <<>>, HirLiteral(Str2("b", "c"))),
                 HirLiteral(Str1("d"))>>),
     HirConcat(<<HirLiteral(Str1("a")),
                 HirRepetition(3, <<>>, HirAlternation(<<HirLiteral(Str2("b", "c")),
                                                         HirLiteral(Str2("c", "b"))>>)),
                 HirLiteral(Str1("d"))>>),
     HirConcat(<<HirLiteral(Str2("a", "b")), HirClass({"c", "d"})>>),
     HirRepetition(0, <<>>, HirLiteral(Str2("a", "b"))),
     HirRepetition(4, <<5>>, HirAlternation(<<HirLiteral(Str2("a", "b")),
                                              HirLiteral(Str2("c", "d"))>>)),
     HirRepetition(1, <<2>>, HirAlternation(<<HirLiteral(Str3("a", "b", "c")),
                                              HirLiteral(Str3("b", "c", "d"))>>)),
     HirConcat(<<HirLiteral(<<"a", "b", "c", "c">>),
                 HirAlternation(<<HirLiteral(<<"c", "b", "b", "c">>),
                                  HirLiteral(Str1("d"))>>)>>)}

\* the texts: abc, bcd, abcd, abab, abbbbc, abccbbccbd
PlannerTexts ==
    {Str3("a", "b", "c"),
     Str3("b", "c", "d"),
     <<"a", "b", "c", "d">>,
     <<"a", "b", "a", "b">>,
     <<"a", "b", "b", "b", "b", "c">>,
     <<"a", "b", "c", "c", "b", "b", "c", "c", "b", "d">>}

\* word_to_file_id_ever_contained once the two documents are indexed
EverOfTexts(text, other) ==
    [t \in SplitByTrigram(text) \cup SplitByTrigram(other) |->
        {f \in {0, 1} : t \in SplitByTrigram(IF f = 0 THEN text ELSE other)}]

InitPlanner ==
    /\ commit_line_end = <<>>
    /\ commit_indexes = <<>>
    /\ provenance = <<>>
    /\ next_commit = 0
    /\ trk_last = [op |-> "none"]
    /\ IndexIdle
    /\ RepoIdle
    /\ DocIdle
    /\ InputIdle
    /\ CacheIdle
    /\ WatchIdle
    /\ materialized = [kind |-> "none"]
    /\ \E hir \in PlannerRegexes : \E text \in PlannerTexts : \E other \in PlannerTexts :
        plan = [kind |-> "asked", hir |-> hir, text |-> text, other |-> other]

\* build_candidates_from_hir over the index of the two documents
PlanRegex ==
    /\ plan.kind = "asked"
    /\ \E r \in {BuildCandidatesFromHir(plan.hir, EverOfTexts(plan.text, plan.other))} :
        plan' = [kind |-> "planned", hir |-> plan.hir, text |-> plan.text,
                 other |-> plan.other, status |-> r.status, candidates |-> r.v]
    /\ UNCHANGED <<trackerVars, indexVars, materialized, docVars, inputVars, cacheVars, watchVars>>

\* the iteration of a RoaringBitmap: its members from the smallest up
RECURSIVE AscendingIds(_)
AscendingIds(bitmap) ==
    IF bitmap = {} THEN <<>>
    ELSE LET first == CHOOSE x \in bitmap : \A y \in bitmap : x <= y
         IN  <<first>> \o AscendingIds(bitmap \ {first})

\* the Document of a one-line file indexed at commit 0
DocumentOfText(text) ==
    [words |-> [t \in SplitByTrigram(text) |-> [commit_inclutivity |-> {0}]],
     all_words |-> SplitByTrigram(text)]

\* the two documents, file_id_to_document[f] being documents[f + 1]
DocumentsOfTexts(text, other) == <<DocumentOfText(text), DocumentOfText(other)>>

\* word_to_file_id_ever_contained seen from file f alone, f standing at FileId
EverOfFile(ever, f) == [t \in DOMAIN ever |-> IF f \in ever[t] THEN {FileId} ELSE {}]

\* the raw results of one file, carrying its file id
OfFile(results, f) == [i \in 1..Len(results) |-> [results[i] EXCEPT !.file_id = f]]

\* searcher.search(query) over several documents: find_overlapping_document
\* walks intersected_docs and pushes the raw results of each file in turn
SearchDocuments(query, ever, documents) ==
    LET file_ids == AscendingIds(0..(Len(documents) - 1))
        per_file == [n \in 1..Len(file_ids) |->
                        Search(query, EverOfFile(ever, file_ids[n]), TRUE,
                               documents[file_ids[n] + 1].words,
                               documents[file_ids[n] + 1].all_words)]
    IN  IF \E n \in 1..Len(file_ids) : per_file[n].status # "ok" THEN Panic
        ELSE Ok(Flatten([n \in 1..Len(file_ids) |-> OfFile(per_file[n].v, file_ids[n])]))

\* the loops of regex_search over the planned candidates and several documents:
\* for each candidate, candidate_docs is walked and the raw result of each
\* file pushed; the raw results of the candidates, candidate by candidate
RegexSearchGroups(candidates, ever, documents) ==
    LET file_ids == AscendingIds(0..(Len(documents) - 1))
    IN  [k \in 1..Len(candidates) |->
            Flatten([n \in 1..Len(file_ids) |->
                OfFile(RegexSearchCandidate(candidates[k],
                                            EverOfFile(ever, file_ids[n]), TRUE,
                                            documents[file_ids[n] + 1].words,
                                            documents[file_ids[n] + 1].all_words),
                       file_ids[n])])]

\* regex_search once the candidates are planned: its loops over the two documents
SearchCandidates ==
    /\ plan.kind = "planned"
    /\ plan.status = "ok"
    /\ \E groups \in {RegexSearchGroups(plan.candidates,
                                        EverOfTexts(plan.text, plan.other),
                                        DocumentsOfTexts(plan.text, plan.other))} :
        plan' = [kind |-> "searched", hir |-> plan.hir, text |-> plan.text,
                 other |-> plan.other, status |-> "ok", candidates |-> plan.candidates,
                 groups |-> groups, results |-> Flatten(groups)]
    /\ UNCHANGED <<trackerVars, indexVars, materialized, docVars, inputVars, cacheVars, watchVars>>

\* searcher.search(query) over the index of the two documents
SearchWords ==
    /\ plan.kind = "asked"
    /\ \E query \in PlainQueries :
        \E r \in {SearchDocuments(query, EverOfTexts(plan.text, plan.other),
                                  DocumentsOfTexts(plan.text, plan.other))} :
            plan' = [kind |-> "words", text |-> plan.text, other |-> plan.other,
                     query |-> query, status |-> r.status, results |-> r.v]
    /\ UNCHANGED <<trackerVars, indexVars, materialized, docVars, inputVars, cacheVars, watchVars>>

NextPlanner ==
    \/ PlanRegex
    \/ SearchCandidates
    \/ SearchWords

SpecPlanner == InitPlanner /\ [][NextPlanner]_vars

\* C4: for every supported regex whose planning completes, any text that
\* contains a match of the regex contains all trigrams of at least one planned
\* group (a plan with no group at all constrains nothing).
C4_PlanIsSound ==
    (plan.kind = "planned" /\ plan.status = "ok" /\ ContainsMatch(plan.hir, plan.text)) =>
        \/ plan.candidates = <<>>
        \/ \E k \in 1..Len(plan.candidates) :
               \A j \in 1..Len(plan.candidates[k]) :
                   ContentMatchesTrigram(<<plan.text>>, plan.candidates[k][j])

(***************************************************************************)
(* Materialization of one raw result into its first and last match          *)
(* (crep-indexer/src/search/result/search_result.rs, and the same loops in *)
(* crep-indexer-cli/src/searcher.rs). The re-check of a commit reads the   *)
(* file at that commit and searches it: its outcome is "match", "nomatch"  *)
(* (read but not matched, or for the library reader no blob to read) or    *)
(* "error" (the reader or the re-check returns Err, which ? propagates).   *)
(***************************************************************************)
MaxMatCommit == 3    \* the raw result's commits are among 0..MaxMatCommit

Outcomes == {"match", "nomatch", "error"}

\* what the repository holds for the file at a commit: a blob the query
\* matches, a blob it does not match, an object that is no blob, no entry at
\* the file's path, or a blob whose re-check fails (Regex::new, AhoCorasick)
Holdings == {"match", "nomatch", "notblob", "absent", "failure"}

\* get_search_result_at_commit over read_file_at_commit: tree.get_path(..)? is
\* an Err when the path has no entry, an object that is no blob reads as None
GetSearchResultAtCommit(held) ==
    CASE held = "match" -> "match"
      [] held \in {"nomatch", "notblob"} -> "nomatch"
      [] OTHER -> "error"

\* the first loop: overlapped_commits in ascending order until a re-check succeeds
RECURSIVE FirstScan(_, _, _)
FirstScan(commits, outcome, k) ==
    IF k > Len(commits) THEN [status |-> "none"]
    ELSE IF outcome[commits[k]] = "error" THEN [status |-> "err"]
    ELSE IF outcome[commits[k]] = "match" THEN [status |-> "ok", commit_id |-> commits[k]]
    ELSE FirstScan(commits, outcome, k + 1)

\* a slip: the descending scan stops only below the first match
LastScanStopsBelowFirst(commit_id, first_commit_id) == commit_id < first_commit_id

\* SearchResult::new, the second loop's stop test
LastScanStops(commit_id, first_commit_id) == commit_id <= first_commit_id

\* SearchResult::new, the second loop: overlapped_commits in descending order
RECURSIVE LastScan(_, _, _, _)
LastScan(commits, outcome, first_commit_id, k) ==
    IF k < 1 THEN [status |-> "ok", last |-> <<>>]
    ELSE IF LastScanStops(commits[k], first_commit_id) THEN [status |-> "ok", last |-> <<>>]
    ELSE IF outcome[commits[k]] = "error" THEN [status |-> "err"]
    ELSE IF outcome[commits[k]] = "match" THEN [status |-> "ok", last |-> <<commits[k]>>]
    ELSE LastScan(commits, outcome, first_commit_id, k - 1)

\* handle_query, the second loop: the re-check comes before the stop test
RECURSIVE HandleQueryLastScan(_, _, _, _)
HandleQueryLastScan(commits, outcome, first_commit_id, k) ==
    IF k < 1 THEN [status |-> "ok", last |-> <<>>]
    ELSE IF outcome[commits[k]] = "error" THEN [status |-> "err"]
    ELSE IF first_commit_id = commits[k] THEN [status |-> "ok", last |-> <<>>]
    ELSE IF outcome[commits[k]] = "match" THEN [status |-> "ok", last |-> <<commits[k]>>]
    ELSE HandleQueryLastScan(commits, outcome, first_commit_id, k - 1)

\* SearchResult::new(reader, _, result): Err, Ok(None) or Ok(Some(first, last))
SearchResultNew(overlapped_commits, outcome) ==
    LET commits == SortedSeq(overlapped_commits)
        first == FirstScan(commits, outcome, 1)
    IN  IF first.status # "ok" THEN first
        ELSE LET last == LastScan(commits, outcome, first.commit_id, Len(commits))
             IN  IF last.status # "ok" THEN last
                 ELSE [status |-> "ok", first_match |-> first.commit_id,
                       last_match |-> last.last]

\* handle_query, the body of its loop for one raw result: Err, skipped
\* ("none") or pushed with its first and last
HandleQuery(overlapped_commits, outcome) ==
    LET commits == SortedSeq(overlapped_commits)
        first == FirstScan(commits, outcome, 1)
    IN  IF first.status # "ok" THEN first
        ELSE LET last == HandleQueryLastScan(commits, outcome, first.commit_id,
                                             Len(commits))
             IN  IF last.status # "ok" THEN last
                 ELSE [status |-> "ok", first_match |-> first.commit_id,
                       last_match |-> last.last]

InitMaterialize ==
    /\ commit_line_end = <<>>
    /\ commit_indexes = <<>>
    /\ provenance = <<>>
    /\ next_commit = 0
    /\ trk_last = [op |-> "none"]
    /\ IndexIdle
    /\ RepoIdle
    /\ DocIdle
    /\ InputIdle
    /\ CacheIdle
    /\ WatchIdle
    /\ plan = [kind |-> "none"]
    /\ \E overlapped_commits \in SUBSET (0..MaxMatCommit) :
        \E held \in [overlapped_commits -> Holdings] :
            materialized = [kind |-> "raw", overlapped_commits |-> overlapped_commits,
                            held |-> held,
                            outcome |-> [c \in overlapped_commits |->
                                            GetSearchResultAtCommit(held[c])]]

\* the library materializes the raw result
MaterializeSearchResult ==
    /\ materialized.kind = "raw"
    /\ materialized' =
           [kind |-> "SearchResult::new",
            overlapped_commits |-> materialized.overlapped_commits,
            held |-> materialized.held,
            outcome |-> materialized.outcome,
            result |-> SearchResultNew(materialized.overlapped_commits,
                                       materialized.outcome)]
    /\ UNCHANGED <<trackerVars, indexVars, plan, docVars, inputVars, cacheVars, watchVars>>

\* the command line tool materializes the raw result
MaterializeHandleQuery ==
    /\ materialized.kind = "raw"
    /\ materialized' =
           [kind |-> "handle_query",
            overlapped_commits |-> materialized.overlapped_commits,
            held |-> materialized.held,
            outcome |-> materialized.outcome,
            result |-> HandleQuery(materialized.overlapped_commits,
                                   materialized.outcome)]
    /\ UNCHANGED <<trackerVars, indexVars, plan, docVars, inputVars, cacheVars, watchVars>>

NextMaterialize ==
    \/ MaterializeSearchResult
    \/ MaterializeHandleQuery

SpecMaterialize == InitMaterialize /\ [][NextMaterialize]_vars

\* the commits of the raw result whose re-check succeeds
Rechecked ==
    {c \in materialized.overlapped_commits : materialized.outcome[c] = "match"}

\* C6: in a materialized result, first_match is the smallest commit of the
\* overlapped commits whose re-check succeeds, last_match is the largest such
\* commit strictly greater than first_match, or absent when there is none,
\* and first_match <= last_match.
C6_FirstAndLastMatch ==
    (materialized.kind \in {"SearchResult::new", "handle_query"}
         /\ materialized.result.status = "ok") =>
        LET first == materialized.result.first_match
            last == materialized.result.last_match
            later == {c \in Rechecked : c > first}
        IN  /\ Rechecked # {}
            /\ first = BitmapMin(Rechecked)
            /\ last = IF later = {} THEN <<>> ELSE <<BitmapMax(later)>>
            /\ last # <<>> => first <= last[1]

\* a result materialized from commits of which one fails the re-check, with a
\* last match, and one without
C6_Witness ==
    /\ materialized.kind \in {"SearchResult::new", "handle_query"}
    /\ materialized.result.status = "ok"
    /\ materialized.result.last_match # <<>>
    /\ \E c \in materialized.overlapped_commits : materialized.outcome[c] = "nomatch"

(***************************************************************************)
(* Claims about the hunks of a Modified file-diff.                         *)
(***************************************************************************)
\* the logged hunks that add lines
AddingHunks == {i \in 1..Len(hunk_log) : hunk_log[i].hunk.new_line_count > 0}

\* the hunk's added text was tokenized with base line new_start - 1 and handed
\* to document.add_words(c, ..) at the commit being walked
AddedTextIndexed(h) ==
    LET lines == h.hunk.added_lines
        base == h.hunk.new_line_start_num - 1
        add == h.add[1]
    IN  /\ DOMAIN add.word_to_lines =
               UNION {SplitByTrigram(lines[n]) : n \in 1..Len(lines)}
        /\ \A w \in DOMAIN add.word_to_lines :
               add.word_to_lines[w] =
                   {base + (n - 1) : n \in {m \in 1..Len(lines) :
                                               w \in SplitByTrigram(lines[m])}}
        /\ add.commit_index = HeadCommit
        /\ add.post = AddWords(add.pre, HeadCommit, add.word_to_lines)

TrackerLines(t) ==
    [n \in 1..TotalLines(t.commit_line_end) |-> TrackerLookup(t, n - 1)]

\* the old lines up to the end of the hunk's old side: the lines it deletes,
\* or for a pure insertion the line it follows
OldSideEnd(hunk) ==
    IF hunk.prev_line_count > 0
    THEN hunk.prev_line_start_num - 1 + hunk.prev_line_count
    ELSE hunk.prev_line_start_num

\* C14: within one file-diff the hunks are applied from the last to the first,
\* so each hunk's old_start is read against line numbers no other hunk of the
\* diff has shifted: the tracker a hunk is applied to still holds, up to the
\* end of the hunk's old side, the lines it held before the diff.
C14_HunksAppliedLastFirst ==
    /\ \A i, j \in 1..Len(hunk_log) :
           i < j => hunk_log[i].hunk.prev_line_start_num
                        > hunk_log[j].hunk.prev_line_start_num
    /\ \A i \in 1..Len(hunk_log) :
           LET before == TrackerLines(hunk_log[1].tracker)
               now == TrackerLines(hunk_log[i].tracker)
               end == OldSideEnd(hunk_log[i].hunk)
           IN  /\ end <= Len(now)
               /\ end <= Len(before)
               /\ SubSeq(now, 1, end) = SubSeq(before, 1, end)

\* C14 witness: a file-diff of two hunks was applied, the later one changing
\* the number of lines
C14_Witness ==
    /\ Len(hunk_log) >= 2
    /\ hunk_log[1].hunk.prev_line_count # hunk_log[1].hunk.new_line_count

(***************************************************************************)
(* Document on its own (crep-indexer/src/index/document.rs): add_words,    *)
(* remove_words, remove_document and finalize called at commits that never *)
(* decrease, as the indexer calls them.                                    *)
(***************************************************************************)
MaxDocCommit == 2    \* SpecDocument: the calls carry commits 0..MaxDocCommit

\* the lines of the calls: one, since the tokens of a Document do not interact
\* and a call's lines only add WordKeys to a token
DocLines == {0}

\* the tokens of the calls
DocTokens == {<<"a", "b", "c">>, <<"b", "c", "d">>}

\* the WordKeys of a word index that are not ended
LiveKeys(word_index) ==
    {k \in DOMAIN word_index.word_history : word_index.word_history[k] = <<>>}

InitDocument ==
    /\ commit_line_end = <<>>
    /\ commit_indexes = <<>>
    /\ provenance = <<>>
    /\ next_commit = 0
    /\ trk_last = [op |-> "none"]
    /\ IndexIdle
    /\ RepoIdle
    /\ QueryIdle
    /\ doc_commit = 0
    /\ doc_last = [op |-> "new"]
    /\ InputIdle
    /\ CacheIdle
    /\ WatchIdle

\* the words after a Document call, the call kept in doc_last with the tokens
\* whose commit_inclutivity it changed
DocCalled(op, post) ==
    /\ words' = post
    /\ doc_last' = [op |-> op, commit_index |-> doc_commit,
                    filled |-> {t \in DOMAIN words :
                                   post[t].commit_inclutivity # words[t].commit_inclutivity}]
    /\ UNCHANGED <<trackerVars, tracked, word_to_file_id_ever_contained, versions,
                   file_exists, rw_log, hunk_log, repo, raw_results, queryVars,
                   doc_commit, inputVars, cacheVars, watchVars>>

\* document.add_words(commit_index, words)
DocAddWords ==
    /\ all_words = <<>>
    /\ \E ts \in (SUBSET DocTokens) \ {{}} :
        \E word_to_lines \in [ts -> (SUBSET DocLines) \ {{}}] :
            DocCalled("add_words",
                      AddWords(words, doc_commit, word_to_lines))
    /\ UNCHANGED all_words

\* document.remove_words(commit_index, words) with one word, the keys being live
\* ones; a call with several words does to each what a call with that word does
DocRemoveWords ==
    /\ all_words = <<>>
    /\ doc_commit >= 1
    /\ \E t \in DOMAIN words :
        \E word_keys \in (SUBSET LiveKeys(words[t])) \ {{}} :
            \E items \in {[w \in {t} |-> word_keys]} :
                DocCalled("remove_words", RemoveWords(words, doc_commit, items))
    /\ UNCHANGED all_words

\* document.remove_document(commit_index)
DocRemoveDocument ==
    /\ all_words = <<>>
    /\ doc_commit >= 1
    /\ DOMAIN words # {}
    /\ DocCalled("remove_document", RemoveDocument(words, doc_commit))
    /\ UNCHANGED all_words

\* the indexer moves on to the next commit
DocNextCommit ==
    /\ all_words = <<>>
    /\ DOMAIN words # {}
    /\ doc_commit < MaxDocCommit
    /\ doc_commit' = doc_commit + 1
    /\ UNCHANGED <<trackerVars, indexVars, queryVars, doc_last, inputVars, cacheVars, watchVars>>

\* document.finalize(commit_index) at the last commit
DocFinalize ==
    /\ all_words = <<>>
    /\ DOMAIN words # {}
    /\ all_words' = <<DOMAIN words>>
    /\ DocCalled("finalize", Finalize(words, doc_commit))

NextDocument ==
    \/ DocAddWords
    \/ DocRemoveWords
    \/ DocRemoveDocument
    \/ DocNextCommit
    \/ DocFinalize

SpecDocument == InitDocument /\ [][NextDocument]_vars

(***************************************************************************)
(* Claims about remove_document and finalize.                              *)
(***************************************************************************)
\* a bitmap with every bit from its greatest one up to end set
FilledUpTo(bm, end) ==
    IF bm = {} THEN bm
    ELSE bm \cup {b \in 0..end : \A x \in bm : b >= x}

\* C15: remove_document(c): every trigram with a live introduction gets its
\* commit_inclusivity filled from its previous maximum up to c-1 and is left
\* with no live introduction; a trigram with no live introduction is not
\* changed.
C15_RemoveDocumentClosesLiveRuns ==
    [][(doc_commit' = doc_commit /\ doc_last'.op = "remove_document") =>
          /\ DOMAIN words' = DOMAIN words
          /\ \A t \in DOMAIN words :
                 IF IsLive(words[t])
                 THEN /\ words'[t].commit_inclutivity =
                             FilledUpTo(words[t].commit_inclutivity, doc_commit - 1)
                      /\ ~IsLive(words'[t])
                      /\ DOMAIN words'[t].word_history = DOMAIN words[t].word_history
                 ELSE words'[t] = words[t]]_vars

\* a token's history ended before the given commit, and its bitmap with it
EndedBefore(word_index, commit_index) ==
    /\ \A k \in DOMAIN word_index.word_history :
           /\ word_index.word_history[k] # <<>>
           /\ word_index.word_history[k][1] < commit_index
    /\ \A b \in word_index.commit_inclutivity : b < commit_index

\* remove_document has filled the bitmap of a live token and passed a token
\* whose history had ended earlier
C15_Witness ==
    /\ doc_last.op = "remove_document"
    /\ doc_last.filled # {}
    /\ \E t \in DOMAIN words : EndedBefore(words[t], doc_last.commit_index - 1)

\* C16: finalize(head_commit): every trigram with a live introduction gets
\* its commit_inclusivity filled from its previous maximum up to and
\* including head_commit; the commit_inclusivity of a trigram with no live
\* introduction is not changed.
C16_FinalizeFillsLiveRuns ==
    [][(all_words = <<>> /\ all_words' # <<>>) =>
          /\ DOMAIN words' = DOMAIN words
          /\ \A t \in DOMAIN words :
                 IF IsLive(words[t])
                 THEN words'[t].commit_inclutivity =
                          FilledUpTo(words[t].commit_inclutivity, doc_commit)
                 ELSE words'[t].commit_inclutivity = words[t].commit_inclutivity]_vars

\* finalize has filled the bitmap of a live token and passed a token whose
\* history had ended before the head commit
C16_Witness ==
    /\ doc_last.op = "finalize"
    /\ doc_last.filled # {}
    /\ \E t \in DOMAIN words : EndedBefore(words[t], doc_last.commit_index)

(***************************************************************************)
(* Claims about add_words, over the calls the hunks of a Modified          *)
(* file-diff make.                                                         *)
(***************************************************************************)
\* the add_words calls of the last Modified file-diff
AddWordsCalls == UNION {Range(hunk_log[i].add) : i \in 1..Len(hunk_log)}

\* C17: add_words(c, words): for each trigram t of the input and each of its
\* lines, (c, line) is a live entry of t's history and bit c is set in t's
\* commit_inclusivity after the call; a trigram not in the input keeps its
\* history and its commit_inclusivity.
C17_AddWordsInsertsAndSetsBit ==
    \A a \in AddWordsCalls :
        /\ DOMAIN a.post = (DOMAIN a.pre) \cup (DOMAIN a.word_to_lines)
        /\ \A t \in DOMAIN a.word_to_lines :
               /\ \A line \in a.word_to_lines[t] :
                      /\ <<a.commit_index, line>> \in DOMAIN a.post[t].word_history
                      /\ a.post[t].word_history[<<a.commit_index, line>>] = <<>>
               /\ a.commit_index \in a.post[t].commit_inclutivity
        /\ \A t \in (DOMAIN a.pre) \ (DOMAIN a.word_to_lines) : a.post[t] = a.pre[t]

\* an add_words call gave a token two lines and passed a token of the
\* document it was not given
C17_Witness ==
    \E a \in AddWordsCalls :
        /\ \E t \in DOMAIN a.word_to_lines : Cardinality(a.word_to_lines[t]) >= 2
        /\ (DOMAIN a.pre) \ (DOMAIN a.word_to_lines) # {}

(***************************************************************************)
(* Claims about the deletion of the file.                                  *)
(***************************************************************************)
\* the file was deleted at some commit walked
DeletedAtSomeCommit ==
    \E c \in 1..(Len(versions) - 1) : versions[c] # <<>> /\ versions[c + 1] = <<>>

\* the commits the last raw query returned for the file
ReturnedCommits == UNION {r.overlapped_commits : r \in RawResults}

\* C18: the Document outlives the deletion of its file: the commit that
\* deletes the file ends every live introduction and leaves every token and
\* every bit set before it in place, no later step clears a bit, and a query
\* for a trigram of the deleted file returns every commit of its bitmap.
C18_DeletionKeepsTheBits ==
    /\ [][(file_exists /\ ~file_exists') =>
             \A t \in DOMAIN words :
                 /\ t \in DOMAIN words'
                 /\ words[t].commit_inclutivity \subseteq words'[t].commit_inclutivity
                 /\ ~IsLive(words'[t])]_vars
    /\ [][\A t \in DOMAIN words :
              /\ t \in DOMAIN words'
              /\ words[t].commit_inclutivity \subseteq words'[t].commit_inclutivity]_vars
    /\ [](  (/\ DeletedAtSomeCommit
             /\ raw_results.kind = "plain"
             /\ Len(raw_results.query) = 1
             /\ raw_results.query[1] \in DOMAIN words
             /\ Len(raw_results.query[1]) = 3)
          => /\ raw_results.status = "ok"
             /\ words[raw_results.query[1]].commit_inclutivity \subseteq ReturnedCommits)

\* the file was deleted at the head commit and a query for a trigram of its
\* first version returns commit 0
C18_Witness ==
    /\ ~file_exists
    /\ DeletedAtSomeCommit
    /\ raw_results.kind = "plain"
    /\ Len(raw_results.query) = 1
    /\ ContentContains(versions[1], raw_results.query[1])
    /\ Len(raw_results.query[1]) = 3
    /\ 0 \in ReturnedCommits

(***************************************************************************)
(* The binary filter (crep-indexer/src/index/check_binary.rs). A byte is a *)
(* natural below 256, a content a sequence of bytes.                       *)
(***************************************************************************)
MaxBlobLen == 3      \* SpecBinary: most bytes of a blob

\* the bytes of the blobs: B M, 0xD8, and the bytes of the byte order marks
BlobBytes == {66, 77, 216, 239, 187, 191, 254, 255}

\* the file extensions of the blobs, "rs" having no signature
BlobExts == {"bmp", "jpg", "rs"}

\* BYTE_ORDER_MARKS
BYTE_ORDER_MARKS == {<<239, 187, 191>>, <<254, 255>>, <<255, 254>>}

\* NUM_BYTES_TO_CHECK
NUM_BYTES_TO_CHECK == 1024 * 8

\* EXT_MAGIC, the entries of the extensions drawn
EXT_MAGIC ==
    [ext \in {"bmp", "jpg"} |->
        IF ext = "bmp" THEN <<[offset |-> 0, bytes |-> <<66, 77>>]>>
        ELSE <<[offset |-> 0, bytes |-> <<255, 216, 255>>]>>]

\* AhoCorasick::find(haystack).is_some(): some mark occurs in the haystack
MarksFind(haystack) ==
    \E mark \in BYTE_ORDER_MARKS :
        \E i \in 1..Len(haystack) :
            /\ i + Len(mark) - 1 <= Len(haystack)
            /\ SubSeq(haystack, i, i + Len(mark) - 1) = mark

\* Utf8FileChecker::check_magic(content, file_ext)
CheckMagic(content, file_ext) ==
    IF file_ext \in DOMAIN EXT_MAGIC
    THEN \E n \in 1..Len(EXT_MAGIC[file_ext]) :
             LET signature == EXT_MAGIC[file_ext][n]
             IN  /\ ~(Len(content) < Len(signature.bytes) + signature.offset)
                 /\ SubSeq(content, signature.offset + 1,
                           signature.offset + Len(signature.bytes)) = signature.bytes
    ELSE FALSE

\* Utf8FileChecker::is_utf8_document(content, file_ext)
IsUtf8Document(content, file_ext) ==
    IF CheckMagic(content, file_ext) THEN TRUE
    ELSE ~MarksFind(SubSeq(content, 1, Min(NUM_BYTES_TO_CHECK, Len(content))))

\* the contents of at most MaxBlobLen bytes
BlobContents == UNION {[1..n -> BlobBytes] : n \in 0..MaxBlobLen}

InitBinary ==
    /\ commit_line_end = <<>>
    /\ commit_indexes = <<>>
    /\ provenance = <<>>
    /\ next_commit = 0
    /\ trk_last = [op |-> "none"]
    /\ IndexIdle
    /\ RepoIdle
    /\ QueryIdle
    /\ DocIdle
    /\ CacheIdle
    /\ WatchIdle
    /\ tokenized = [kind |-> "none"]
    /\ \E content \in BlobContents : \E file_ext \in BlobExts :
        blob = [kind |-> "blob", content |-> content, file_ext |-> file_ext]

\* the blob is taken for indexing when is_utf8_document answers true
CheckBlob ==
    /\ blob.kind = "blob"
    /\ blob' = [kind |-> "checked", content |-> blob.content, file_ext |-> blob.file_ext,
                accepted |-> IsUtf8Document(blob.content, blob.file_ext)]
    /\ UNCHANGED <<trackerVars, indexVars, queryVars, docVars, tokenized, cacheVars, watchVars>>

NextBinary == CheckBlob

SpecBinary == InitBinary /\ [][NextBinary]_vars

\* C19: a blob is accepted exactly when its content matches no signature of
\* its extension and no byte order mark occurs in its first 8 KiB; a blob
\* whose content matches a signature is rejected.
C19_AcceptedIffNoMagicAndNoMark ==
    blob.kind = "checked" =>
        (blob.accepted <=>
            /\ ~CheckMagic(blob.content, blob.file_ext)
            /\ ~MarksFind(SubSeq(blob.content, 1,
                                 Min(NUM_BYTES_TO_CHECK, Len(blob.content)))))

(***************************************************************************)
(* The two trigram tokenizers on one line: split_by_trigram of             *)
(* crep-indexer/src/tokenizer.rs (SplitByTrigram above) and of             *)
(* trigram-hash/src/trigram_hash.rs. The chars drawn are one byte long, so *)
(* a char's byte index is its position.                                    *)
(***************************************************************************)
MaxTokenLineLen == 4     \* SpecTokenizer: most chars of the line

\* the chars of the line
TokenChars == {"a", "b", "c"}

\* TrigramKey::from_utf8(s): the bytes in a zeroed 12-byte array, and the length
TrigramKeyFromUtf8(s) ==
    [bytes |-> [i \in 1..12 |-> IF i <= Len(s) THEN s[i] ELSE "\\0"], len |-> Len(s)]

\* TrigramKey serialized for a reader: the first len bytes
TrigramKeyText(key) == SubSeq(key.bytes, 1, key.len)

\* trigram_hash's split_by_trigram from the char at total_count on
RECURSIVE SplitByTrigramKeysFrom(_, _, _, _, _)
SplitByTrigramKeysFrom(line, total_count, indexes, first_and_second, keys) ==
    IF total_count = Len(line)
    THEN IF total_count <= 2 /\ total_count > 0
         THEN keys \cup {TrigramKeyFromUtf8(first_and_second[Len(first_and_second)])}
         ELSE keys
    ELSE LET index == total_count
             start == indexes[((total_count + 1) % 3) + 1]
             word == SubSeq(line, start + 1, index + 1)
         IN  SplitByTrigramKeysFrom(
                 line, total_count + 1,
                 [indexes EXCEPT ![(total_count % 3) + 1] = index],
                 IF total_count < 2 THEN Append(first_and_second, word)
                 ELSE first_and_second,
                 IF total_count < 2 THEN keys
                 ELSE keys \cup {TrigramKeyFromUtf8(word)})

\* trigram_hash's split_by_trigram(line, word_pos, line_num): the keys given the line
SplitByTrigramKeys(line) == SplitByTrigramKeysFrom(line, 0, <<0, 0, 0>>, <<>>, {})

\* the lines of at most MaxTokenLineLen chars
TokenLines == UNION {[1..n -> TokenChars] : n \in 0..MaxTokenLineLen}

InitTokenizer ==
    /\ commit_line_end = <<>>
    /\ commit_indexes = <<>>
    /\ provenance = <<>>
    /\ next_commit = 0
    /\ trk_last = [op |-> "none"]
    /\ IndexIdle
    /\ RepoIdle
    /\ QueryIdle
    /\ DocIdle
    /\ CacheIdle
    /\ WatchIdle
    /\ blob = [kind |-> "none"]
    /\ \E line \in TokenLines : tokenized = [kind |-> "line", line |-> line]

\* crep-indexer's tokenizer splits the line
TokenizeLine ==
    /\ tokenized.kind = "line"
    /\ tokenized' = [kind |-> "tokenizer", line |-> tokenized.line,
                     tokens |-> SplitByTrigram(tokenized.line)]
    /\ UNCHANGED <<trackerVars, indexVars, queryVars, docVars, blob, cacheVars, watchVars>>

\* trigram-hash splits the line
TokenizeLineToKeys ==
    /\ tokenized.kind = "line"
    /\ tokenized' = [kind |-> "trigram_hash", line |-> tokenized.line,
                     tokens |-> {TrigramKeyText(key) :
                                    key \in SplitByTrigramKeys(tokenized.line)}]
    /\ UNCHANGED <<trackerVars, indexVars, queryVars, docVars, blob, cacheVars, watchVars>>

NextTokenizer ==
    \/ TokenizeLine
    \/ TokenizeLineToKeys

SpecTokenizer == InitTokenizer /\ [][NextTokenizer]_vars

\* the 3-char windows of a line
Windows(line) == {SubSeq(line, i, i + 2) : i \in 1..(Len(line) - 2)}

\* C20: for a line of n chars the tokens are: none if n = 0; the whole line
\* and nothing else if n is 1 or 2; the n-2 sliding 3-char windows and no
\* shorter token if n >= 3.
C20_TokensOfALine ==
    tokenized.kind \in {"tokenizer", "trigram_hash"} =>
        tokenized.tokens =
            IF Len(tokenized.line) = 0 THEN {}
            ELSE IF Len(tokenized.line) <= 2 THEN {tokenized.line}
            ELSE Windows(tokenized.line)

(***************************************************************************)
(* Claims about the raw plain search.                                      *)
(***************************************************************************)
\* doc.modified_commits of the file: the commits whose diff changed, created
\* or deleted it (add_words, remove_words and remove_document each set the
\* bit of their commit)
ModifiedCommits ==
    {c \in 0..HeadCommit :
        IF c = 0 THEN versions[1] # <<>> ELSE versions[c + 1] # versions[c]}

\* the per-word commit sets of the file for the words of the last plain query
PerWordHistories ==
    [i \in 1..Len(raw_results.query) |->
        FindMatchingCommitHistoriesInDoc(words, all_words[1], raw_results.query[i])]

\* C21: for a plain query, the overlapped_commits of the raw result of the
\* file is the intersection of the per-word commit sets across the query
\* words, intersected with the file's modified_commits, and a result is
\* emitted exactly when that set is not empty.
C21_PlainCommitsWithinModified ==
    (/\ raw_results.kind = "plain"
     /\ raw_results.status = "ok"
     /\ tracked
     /\ Len(raw_results.query) >= 1
     /\ \A i \in 1..Len(raw_results.query) :
            PerWordHistories[i].status = "ok" /\ Len(PerWordHistories[i].v) = 1)
    => LET expected ==
               IntersectBitmaps({PerWordHistories[i].v[1].bitmap :
                                    i \in 1..Len(raw_results.query)})
                   \cap ModifiedCommits
       IN  {r.overlapped_commits : r \in RawResults} =
               IF expected = {} THEN {} ELSE {expected}

\* C22: for a query word w shorter than 3 characters, the commit set of w in
\* the file is the union of the commit_inclusivity bitmaps of the trigrams
\* of the file's all_words that contain w; seen through the raw result of
\* the query made of w alone.
C22_ShortWordIsUnionOfTrigrams ==
    (/\ raw_results.kind = "plain"
     /\ raw_results.status = "ok"
     /\ tracked
     /\ Len(raw_results.query) = 1
     /\ Len(raw_results.query[1]) < 3)
    => LET union ==
               UNION {words[t].commit_inclutivity :
                         t \in FindAllWordsContainingKey(raw_results.query[1],
                                                         all_words[1])}
       IN  {r.overlapped_commits : r \in RawResults} =
               IF union = {} THEN {} ELSE {union}

\* C23: a plain query that is empty or holds blanks only returns an empty
\* result list, with no error and no panic.
C23_BlankQueryReturnsNothing ==
    (/\ raw_results.kind = "plain"
     /\ \A i \in 1..Len(raw_results.text) : raw_results.text[i] = " ")
    => /\ raw_results.status = "ok"
       /\ raw_results.results = <<>>

\* no key of the global index matches the word: no 3-char key contains a word
\* of 1 or 2 chars, no trigram of a longer word is a key
MatchedByNoKey(word) ==
    IF Len(word) <= 2
    THEN FindAllWordsContainingKey(word, DOMAIN word_to_file_id_ever_contained) = {}
    ELSE \A t \in SplitByTrigram(word) :
             Len(t) = 3 => t \notin DOMAIN word_to_file_id_ever_contained

\* C24: a plain query holding a word, of whatever length, that no key of the
\* global index matches returns an empty result list, with no error and no
\* panic.
C24_UnmatchedWordReturnsNothing ==
    (/\ raw_results.kind = "plain"
     /\ \E i \in 1..Len(raw_results.query) : MatchedByNoKey(raw_results.query[i]))
    => /\ raw_results.status = "ok"
       /\ raw_results.results = <<>>

(***************************************************************************)
(* Claims about the raw regex search.                                      *)
(***************************************************************************)

\* the syntax tree holds a capture group or a look-around assertion somewhere
RECURSIVE HasCaptureOrLook(_)
HasCaptureOrLook(hir) ==
    CASE hir.kind \in {"Capture", "Look"} -> TRUE
      [] hir.kind = "Repetition" -> HasCaptureOrLook(hir.sub)
      [] hir.kind \in {"Concat", "Alternation"} ->
            \E i \in 1..Len(hir.hirs) : HasCaptureOrLook(hir.hirs[i])
      [] OTHER -> FALSE

\* C25: a regex query whose syntax tree holds a capture group or a look-around
\* assertion anywhere fails with a query error and yields no raw results
C25_CaptureOrLookIsAQueryError ==
    (raw_results.kind = "regex" /\ HasCaptureOrLook(raw_results.query)) =>
        raw_results.status = "err" /\ raw_results.results = <<>>

\* the r-fold concatenation of a set of trigram lists: every way of picking r
\* of them in a row, each one joined to the lists before it
RECURSIVE RepeatedConcatenation(_, _)
RepeatedConcatenation(parts, r) ==
    IF r = 0 THEN {<<>>}
    ELSE IF r = 1 THEN parts
    ELSE {MergeTrigrams(<<a, b>>).v : a \in RepeatedConcatenation(parts, r - 1),
                                     b \in parts}

\* the candidates of the sub-expression of the planned repetition
PlannedSub == BuildCandidatesFromHir(plan.hir.sub, EverOfTexts(plan.text, plan.other))

\* C26: the candidates planned for Repetition(min, max, sub) are exactly the
\* union, over r from min(min, 3) to min(max, 3) with an unbounded max counting
\* as 3, of the r-fold concatenation of the candidates of sub, r = 0 giving one
\* part with no trigrams
C26_RepetitionIsUnionOfFolds ==
    (plan.kind = "planned" /\ plan.hir.kind = "Repetition" /\ plan.status = "ok") =>
        {plan.candidates[k] : k \in 1..Len(plan.candidates)} =
            UNION {RepeatedConcatenation({PlannedSub.v[k] : k \in 1..Len(PlannedSub.v)}, r) :
                     r \in Min(plan.hir.min, 3)..
                           Min(IF plan.hir.max = <<>> THEN 3 ELSE plan.hir.max[1], 3)}

\* (ab)* planned over documents holding "ab": the folds 0 to 3
C26_Witness ==
    /\ plan.kind = "planned" /\ plan.hir.kind = "Repetition" /\ plan.status = "ok"
    /\ plan.hir.min = 0 /\ plan.hir.max = <<>>
    /\ Len(plan.candidates) = 4
    /\ plan.candidates[1] = <<>>

\* C27: a planned group without trigrams matches unconditionally, so the query
\* is not filtered: every commit at which the file has lines is returned
C27_EmptyGroupIsUnfiltered ==
    (/\ raw_results.kind = "regex"
     /\ raw_results.status = "ok"
     /\ \E k \in 1..Len(raw_results.candidates) : raw_results.candidates[k] = <<>>) =>
        \A c \in 0..HeadCommit :
            versions[c + 1] # <<>> =>
                \E i \in 1..Len(raw_results.results) :
                    c \in raw_results.results[i].overlapped_commits

\* what the boundary of two consecutive parts becomes: left and right fused
\* when they fit in a trigram, otherwise the 3-grams of left . right at the
\* positions 0..|left|+|right|-3, the k-th one starting at position k - 1
Boundary(left, right) ==
    IF Len(left) + Len(right) <= 3 THEN <<left \o right>>
    ELSE [k \in 1..(Len(left) + Len(right) - 2) |->
             [i \in 1..3 |-> (left \o right)[k - 1 + i]]]

\* the trigrams of part A then part B: the earlier trigrams of A, the boundary,
\* the remaining trigrams of B; a part without trigrams adds nothing
JoinParts(A, B) ==
    IF Len(A) = 0 THEN B
    ELSE IF Len(B) = 0 THEN A
    ELSE SubSeq(A, 1, Len(A) - 1) \o Boundary(A[Len(A)], B[1]) \o Tail(B)

\* the groups of the parts of a concatenation joined from left to right, one
\* group picked per part
RECURSIVE JoinedGroups(_)
JoinedGroups(parts) ==
    IF Len(parts) = 1 THEN Range(parts[1])
    ELSE {JoinParts(A, B) : A \in JoinedGroups(SubSeq(parts, 1, Len(parts) - 1)),
                            B \in Range(parts[Len(parts)])}

\* the candidates of the parts of the planned concatenation
PlannedParts ==
    [i \in 1..Len(plan.hir.hirs) |->
        BuildCandidatesFromHir(plan.hir.hirs[i], EverOfTexts(plan.text, plan.other)).v]

\* C28: consecutive parts A then B of a planned concatenation are joined at
\* left = the last trigram of A and right = the first trigram of B: fused into
\* one trigram if |left| + |right| <= 3, otherwise every 3-gram of left . right,
\* followed by the remaining trigrams of B, the earlier trigrams of A kept
C28_ConcatJoinsAtTheBoundary ==
    (plan.kind = "planned" /\ plan.hir.kind = "Concat" /\ plan.status = "ok") =>
        Range(plan.candidates) = JoinedGroups(PlannedParts)

\* abcc(cbbc|d) planned over a document holding both literals: the group of
\* abcc and cbbc keeps abc, spans the boundary with bcc, ccc, ccb, cbb and
\* ends with bbc
C28_Witness ==
    /\ plan.kind = "planned" /\ plan.hir.kind = "Concat" /\ plan.status = "ok"
    /\ Len(plan.candidates) = 2
    /\ Len(plan.candidates[1]) = 6
    /\ Len(plan.candidates[2]) = 3

(***************************************************************************)
(* The server's search handler (crep-server/server/src/api/search.rs) over *)
(* its search cache (crep-server/server/src/search/search_cache.rs). The   *)
(* index is fixed while the server runs: a query has the raw results the   *)
(* index gives it, and a raw result the SearchResult the repository gives  *)
(* it. A handler touches the cache under its mutex three times at most:    *)
(* find, put_raw_result after the raw search, put_search_results after the *)
(* conversion; the handlers interleave between these. The queries are      *)
(* trimmed and not empty. A hit is formatted by                            *)
(* SearchHit::from_search_result entry by entry; the response is modelled  *)
(* up to the Option<SearchResult> of each entry.                           *)
(***************************************************************************)
MaxCacheSize == 1    \* the cache holds at most MaxCacheSize queries (1024 in server_context.rs)

\* the handlers serving requests at the same time
Handlers == {1, 2}

\* the requests asked: the query, the page and the page size
ServedQueries == {"q1", "q2", "bad"}
ServedPages == {0, 1}
PageSizes == {2}

\* what the raw search gives over the index: three raw results, one raw
\* result, a query error
RawSearchOf(query) ==
    CASE query = "q1" -> Ok(<<"r1", "r2", "r3">>)
      [] query = "q2" -> Ok(<<"r4">>)
      [] OTHER -> Err

\* what SearchResult::new gives for a raw result over the repository: a
\* result, no result (no commit passes the re-check), an error
SearchResultOf(raw) ==
    CASE raw \in {"r1", "r3"} -> Ok(<<[of |-> raw]>>)
      [] raw = "r2" -> Ok(<<>>)
      [] OTHER -> Err

\* the positions of the query in the cache (at most one)
CachedAt(cache, q) == {i \in 1..Len(cache) : cache[i].query = q}

\* LruCache::get(q): the entry, if any, becomes the most recently used
LruGet(cache, q) ==
    IF CachedAt(cache, q) = {} THEN cache
    ELSE LET i == CHOOSE i \in CachedAt(cache, q) : TRUE
         IN  SubSeq(cache, 1, i - 1) \o SubSeq(cache, i + 1, Len(cache)) \o <<cache[i]>>

\* LruCache::try_get_or_insert_mut(q, CachedSearchResults::default): the entry
\* becomes the most recently used; a new one evicts the least recently used
\* of a full cache
LruGetOrInsert(cache, q) ==
    IF CachedAt(cache, q) # {} THEN LruGet(cache, q)
    ELSE (IF Len(cache) >= MaxCacheSize THEN Tail(cache) ELSE cache)
             \o <<[query |-> q, raw_result |-> <<>>, raw_index_to_search_result |-> <<>>]>>

\* SearchCache::find(q, result_index): Option<Vec<CacheResult>>
SearchCacheFind(cache, q, result_index) ==
    IF CachedAt(cache, q) = {} THEN <<>>
    ELSE LET c == cache[CHOOSE i \in CachedAt(cache, q) : TRUE]
         IN  <<[k \in 1..Len(result_index) |->
                  LET index == result_index[k]
                  IN  IF index >= Len(c.raw_result) THEN [kind |-> "NotExist"]
                      ELSE IF index \in DOMAIN c.raw_index_to_search_result
                      THEN IF c.raw_index_to_search_result[index] # <<>>
                           THEN [kind |-> "Hit",
                                 v |-> c.raw_index_to_search_result[index][1]]
                           ELSE [kind |-> "NotExist"]
                      ELSE [kind |-> "Miss", v |-> c.raw_result[index + 1]]]>>

\* SearchCache::put_raw_result(q, raw_result)
PutRawResult(cache, q, raw_result) ==
    LET results == LruGetOrInsert(cache, q)
    IN  [results EXCEPT ![Len(results)].raw_result = raw_result]

\* SearchCache::put_search_results(q, results), results being the map from the
\* indexes to the Option<SearchResult> to insert
PutSearchResults(cache, q, results) ==
    IF DOMAIN results = {} THEN cache
    ELSE LET inserted == LruGetOrInsert(cache, q)
             entry == inserted[Len(inserted)].raw_index_to_search_result
         IN  [inserted EXCEPT ![Len(inserted)].raw_index_to_search_result =
                 [index \in DOMAIN entry \cup DOMAIN results |->
                     IF index \in DOMAIN results THEN results[index] ELSE entry[index]]]

\* request.page * request.page_size..(request.page + 1) * request.page_size
PageRange(page, page_size) == [k \in 1..page_size |-> page * page_size + k - 1]

\* the part of raw_index_to_search_result of the query that lies in the range
PopulatedIn(cache, q, result_index) ==
    IF CachedAt(cache, q) = {} THEN <<>>
    ELSE LET c == cache[CHOOSE i \in CachedAt(cache, q) : TRUE]
         IN  [index \in Range(result_index) \cap DOMAIN c.raw_index_to_search_result |->
                 c.raw_index_to_search_result[index]]

InitServer ==
    /\ commit_line_end = <<>>
    /\ commit_indexes = <<>>
    /\ provenance = <<>>
    /\ next_commit = 0
    /\ trk_last = [op |-> "none"]
    /\ IndexIdle
    /\ RepoIdle
    /\ QueryIdle
    /\ DocIdle
    /\ InputIdle
    /\ WatchIdle
    /\ search_cache = <<>>
    /\ requests = [h \in Handlers |-> [pc |-> "idle"]]
    /\ served = {}

\* a handler takes a request up to search_cache.find (search.rs 92-121)
SearchFind(h) ==
    /\ requests[h].pc \in {"idle", "done"}
    /\ \E query \in ServedQueries : \E page \in ServedPages : \E page_size \in PageSizes :
        \E found \in {SearchCacheFind(search_cache, query, PageRange(page, page_size))} :
            /\ search_cache' = LruGet(search_cache, query)
            /\ requests' = [requests EXCEPT ![h] =
                   [pc |-> IF found = <<>> THEN "search" ELSE "convert",
                    query |-> query, page |-> page, page_size |-> page_size,
                    repeated |-> <<query, page, page_size>> \in served,
                    cached |-> found # <<>>,
                    populated |-> PopulatedIn(search_cache, query,
                                              PageRange(page, page_size)),
                    searched |-> FALSE,
                    converted |-> {},
                    results |-> IF found = <<>> THEN <<>> ELSE found[1],
                    status |-> "running",
                    response |-> <<>>]]
    /\ UNCHANGED <<served, trackerVars, indexVars, queryVars, docVars, inputVars, watchVars>>

\* the cache had no entry: the raw search, put_raw_result and the page of the
\* raw results (search.rs 124-160)
SearchRaw(h) ==
    /\ requests[h].pc = "search"
    /\ LET r == requests[h]
           raw == RawSearchOf(r.query)
           first == r.page * r.page_size
       IN  IF raw.status # "ok"
           THEN /\ requests' = [requests EXCEPT ![h].pc = "done",
                                                ![h].searched = TRUE,
                                                ![h].status = "bad_request"]
                /\ served' = served \cup {<<r.query, r.page, r.page_size>>}
                /\ UNCHANGED search_cache
           ELSE /\ search_cache' = PutRawResult(search_cache, r.query, raw.v)
                /\ requests' = [requests EXCEPT
                       ![h].pc = "convert",
                       ![h].searched = TRUE,
                       ![h].results =
                           IF first >= Len(raw.v) THEN <<>>
                           ELSE [k \in 1..(Min(first + r.page_size, Len(raw.v))
                                           - first) |->
                                    [kind |-> "Miss", v |-> raw.v[first + k]]]]
                /\ UNCHANGED served
    /\ UNCHANGED <<trackerVars, indexVars, queryVars, docVars, inputVars, watchVars>>

\* the conversion of the page, put_search_results and the response
\* (search.rs 170-278)
SearchConvert(h) ==
    /\ requests[h].pc = "convert"
    /\ LET r == requests[h]
           first == r.page * r.page_size
           result ==
               Collect([k \in 1..Len(r.results) |->
                   CASE r.results[k].kind = "Hit" ->
                            Ok([result |-> <<r.results[k].v>>,
                                should_update_cache |-> FALSE])
                     [] r.results[k].kind = "Miss" ->
                            LET search_result == SearchResultOf(r.results[k].v)
                            IN  IF search_result.status # "ok" THEN search_result
                                ELSE Ok([result |-> search_result.v,
                                         should_update_cache |-> TRUE])
                     [] OTHER -> Ok([result |-> <<>>, should_update_cache |-> FALSE])])
           converted == {first + k - 1 : k \in {k \in 1..Len(r.results) :
                                                   r.results[k].kind = "Miss"}}
       IN  /\ IF result.status # "ok"
              THEN /\ requests' = [requests EXCEPT ![h].pc = "done",
                                                   ![h].converted = converted,
                                                   ![h].status = "internal"]
                   /\ UNCHANGED search_cache
              ELSE /\ search_cache' =
                          PutSearchResults(search_cache, r.query,
                              [index \in {first + k - 1 : k \in {k \in 1..Len(result.v) :
                                              result.v[k].should_update_cache}} |->
                                  result.v[index - first + 1].result])
                   /\ requests' = [requests EXCEPT
                          ![h].pc = "done",
                          ![h].converted = converted,
                          ![h].status = "ok",
                          ![h].response = [k \in 1..Len(result.v) |-> result.v[k].result]]
           /\ served' = served \cup {<<r.query, r.page, r.page_size>>}
    /\ UNCHANGED <<trackerVars, indexVars, queryVars, docVars, inputVars, watchVars>>

NextServer ==
    \E h \in Handlers :
        \/ SearchFind(h)
        \/ SearchRaw(h)
        \/ SearchConvert(h)

SpecServer == InitServer /\ [][NextServer]_vars

\* the indexes of the page a handler serves
PageIndexes(r) == {r.page * r.page_size + k - 1 : k \in 1..r.page_size}

\* the request a handler ended neither ran the raw search nor converted an
\* index that raw_index_to_search_result held when the cache was looked up, and
\* its response has what the cache held at those indexes
ServedFromCache(r) ==
    /\ ~r.searched
    /\ r.converted \subseteq PageIndexes(r) \ DOMAIN r.populated
    /\ r.status = "ok" =>
           \A index \in DOMAIN r.populated :
               r.response[index - r.page * r.page_size + 1] = r.populated[index]

\* C29: for a repeated request with the same query and page range that finds
\* its query in the cache, only the indexes of the page not yet in the
\* materialized map are materialized, the populated ones are served from the
\* cache, and the raw search is not run again
C29_RepeatedRequestUsesCache ==
    \A h \in DOMAIN requests :
        (requests[h].pc = "done" /\ requests[h].repeated /\ requests[h].cached) =>
            ServedFromCache(requests[h])

\* the file ids of the raw results never go down
AscendingFileIds(results) ==
    \A i \in 1..Len(results) : \A j \in i..Len(results) :
        results[i].file_id <= results[j].file_id

\* C30: the raw results of a plain or regex query over a fixed index are in
\* ascending order of file id
C30_RawResultsAscend ==
    plan.kind \in {"words", "searched"} => AscendingFileIds(plan.results)

(***************************************************************************)
(* Claims about the materialization of a raw result.                       *)
(***************************************************************************)
\* C31: a raw result whose re-check fails at every commit of
\* overlapped_commits, or whose blob cannot be read at any of them,
\* materializes to None
C31_NoMatchAnywhereIsNone ==
    (/\ materialized.kind = "SearchResult::new"
     /\ \A c \in materialized.overlapped_commits :
            materialized.held[c] \in {"nomatch", "notblob", "absent"}) =>
        materialized.result.status = "none"

(***************************************************************************)
(* The context lines of a match at one commit                              *)
(* (single_commit_search_result.rs).  A file is its number of lines and    *)
(* the set of 0-based line numbers where the query's matches were found.   *)
(***************************************************************************)
MaxContentLines == 6

\* pos.line_num.saturating_sub(2)..pos.line_num.saturating_add(2), filtered
\* by l < file_content.len(): the range excludes its upper end
ContextRange(line_num, len) ==
    {l \in Max(0, line_num - 2)..(line_num + 2 - 1) : l < len}

\* SingleCommitSearchResult::new: None without a match, else the matched
\* lines and the union of their context ranges
SingleCommitSearchResultNew(len, matches) ==
    IF matches = {}
    THEN [status |-> "none"]
    ELSE [status |-> "ok",
          words_per_line |-> matches,
          lines |-> UNION {ContextRange(line_num, len) : line_num \in matches}]

InitContext ==
    /\ commit_line_end = <<>>
    /\ commit_indexes = <<>>
    /\ provenance = <<>>
    /\ next_commit = 0
    /\ trk_last = [op |-> "none"]
    /\ IndexIdle
    /\ RepoIdle
    /\ DocIdle
    /\ InputIdle
    /\ CacheIdle
    /\ WatchIdle
    /\ plan = [kind |-> "none"]
    /\ \E len \in 0..MaxContentLines :
        \E matches \in SUBSET (0..(len - 1)) :
            materialized = [kind |-> "content", len |-> len, matches |-> matches]

\* the re-check of one commit's content builds the single commit result
MaterializeSingleCommit ==
    /\ materialized.kind = "content"
    /\ materialized' =
           [kind |-> "SingleCommitSearchResult::new",
            len |-> materialized.len,
            matches |-> materialized.matches,
            result |-> SingleCommitSearchResultNew(materialized.len,
                                                   materialized.matches)]
    /\ UNCHANGED <<trackerVars, indexVars, plan, docVars, inputVars, cacheVars, watchVars>>

NextContext == MaterializeSingleCommit

SpecContext == InitContext /\ [][NextContext]_vars

\* C32: for each matched line L the context window holds every line from
\* L-2 through L+2 inclusive, clipped to the bounds of the file
C32_ContextIsTwoLinesEachSide ==
    (/\ materialized.kind = "SingleCommitSearchResult::new"
     /\ materialized.result.status = "ok") =>
        \A L \in materialized.matches :
            \A l \in (L - 2)..(L + 2) :
                (l >= 0 /\ l < materialized.len) =>
                    l \in materialized.result.lines

(***************************************************************************)
(* Claims about the shape of the tracker's run vectors.                    *)
(***************************************************************************)
\* commit_line_end is strictly increasing and starts above zero: no run is empty
NoEmptyRun(ends) ==
    \A k \in 1..Len(ends) : (IF k = 1 THEN 0 ELSE ends[k - 1]) < ends[k]

\* C33: after add_lines and delete_lines calls with in-range arguments,
\* commit_line_end and commit_indexes have equal length, commit_line_end is
\* strictly increasing (no empty run), and the last end is the number of
\* lines added minus the number of lines deleted
C33_RunVectorsWellFormed ==
    trk_last.op \in {"add", "delete"} =>
        /\ Len(commit_line_end) = Len(commit_indexes)
        /\ NoEmptyRun(commit_line_end)
        /\ TotalLines(commit_line_end) = Len(provenance)

(***************************************************************************)
(* The repository watcher (repo_watcher.rs): notify callback threads push  *)
(* events into the debouncer, whose timer task wakes the indexer, which    *)
(* drains and merges the queued events.                                    *)
(***************************************************************************)
MaxFsEvents == 3            \* most events the callbacks push in a run
Callbacks == {1, 2}         \* the threads that may run the notify callback
WatchedPaths == {"a", "b"}  \* the paths the ignore checker lets through

\* the paths of one event: one path or, as for a rename, two
EventPaths == {{"a"}, {"a", "b"}}

\* the event kinds is_modify_event lets through
EventKinds == {"Create", "Remove", "ModifyData", "ModifyName"}

\* FsEvent::from: a rename counts as a creation
FsEventFrom(kind, paths) ==
    [type |-> CASE kind = "Create" -> "Create"
                [] kind = "Remove" -> "Remove"
                [] kind = "ModifyData" -> "Modify"
                [] kind = "ModifyName" -> "Create",
     paths |-> paths]

\* is_timer_set.swap(v): the value read, blind to what the flag held
AtomicSwapBlind(flag, v) == [old |-> FALSE, new |-> v]

\* is_timer_set.swap(v): the value read and the value left
AtomicSwap(flag, v) == [old |-> flag, new |-> v]

\* one event of handle_index's loop, a removal keeping the path as modified
MergeEventKeepsModified(acc, event) ==
    CASE event.type = "Create" ->
            [created |-> acc.created \cup event.paths, modified |-> acc.modified]
      [] event.type = "Modify" ->
            [created |-> acc.created, modified |-> acc.modified \cup event.paths]
      [] OTHER ->
            [created |-> acc.created \ event.paths,
             modified |-> acc.modified \cup (event.paths \ acc.created)]

\* one event of handle_index's loop over the drained events
MergeEvent(acc, event) ==
    CASE event.type = "Create" ->
            [created |-> acc.created \cup event.paths, modified |-> acc.modified]
      [] event.type = "Modify" ->
            [created |-> acc.created, modified |-> acc.modified \cup event.paths]
      [] OTHER ->
            [created |-> acc.created \ event.paths,
             modified |-> (acc.modified \ (event.paths \cap acc.created))
                              \cup (event.paths \ acc.created)]

\* the loop of handle_index over the first k drained events
RECURSIVE MergeEvents(_, _)
MergeEvents(file_events, k) ==
    IF k = 0
    THEN [created |-> {}, modified |-> {}]
    ELSE MergeEvent(MergeEvents(file_events, k - 1), file_events[k])

\* handle_index on a drained batch: created_files after the loop, and
\* modified_files after modified_files.extend(created_files.drain())
HandleIndex(file_events) ==
    LET merged == MergeEvents(file_events, Len(file_events))
    IN  [created |-> merged.created,
         modified |-> merged.modified \cup merged.created]

InitWatcher ==
    /\ commit_line_end = <<>>
    /\ commit_indexes = <<>>
    /\ provenance = <<>>
    /\ next_commit = 0
    /\ trk_last = [op |-> "none"]
    /\ IndexIdle
    /\ RepoIdle
    /\ QueryIdle
    /\ DocIdle
    /\ InputIdle
    /\ CacheIdle
    /\ file_paths_modified = <<>>
    /\ is_timer_set = FALSE
    /\ indexer_signal = 0
    /\ timers = [asleep |-> 0, sent |-> 0, spawned |-> 0, woke |-> 0]
    /\ callbacks = [c \in Callbacks |-> "idle"]
    /\ indexer = [pc |-> "recv", batch |-> <<>>,
                  report |-> [created |-> {}, modified |-> {}]]
    /\ fs_events = [pushed |-> 0, handed |-> {}]

\* the notify callback up to the push of schedule_indexer_wakeup
CallbackPush(c) ==
    /\ callbacks[c] = "idle"
    /\ fs_events.pushed < MaxFsEvents
    /\ \E kind \in EventKinds : \E paths \in EventPaths :
        file_paths_modified' =
            Append(file_paths_modified,
                   [id |-> fs_events.pushed + 1, event |-> FsEventFrom(kind, paths)])
    /\ fs_events' = [fs_events EXCEPT !.pushed = @ + 1]
    /\ callbacks' = [callbacks EXCEPT ![c] = "pushed"]
    /\ UNCHANGED <<is_timer_set, indexer_signal, timers, indexer>>
    /\ UNCHANGED <<trackerVars, indexVars, queryVars, docVars, inputVars, cacheVars>>

\* the swap of schedule_indexer_wakeup and, when it read false, the spawn
CallbackSwap(c) ==
    /\ callbacks[c] = "pushed"
    /\ \E swap \in {AtomicSwap(is_timer_set, TRUE)} :
        /\ is_timer_set' = swap.new
        /\ timers' = IF swap.old
                     THEN timers
                     ELSE [timers EXCEPT !.asleep = @ + 1, !.spawned = @ + 1]
    /\ callbacks' = [callbacks EXCEPT ![c] = "idle"]
    /\ UNCHANGED <<file_paths_modified, indexer_signal, indexer, fs_events>>
    /\ UNCHANGED <<trackerVars, indexVars, queryVars, docVars, inputVars, cacheVars>>

\* a timer task's sleep ends and it sends the wakeup
TimerSend ==
    /\ timers.asleep > 0
    /\ timers' = [timers EXCEPT !.asleep = @ - 1, !.sent = @ + 1, !.woke = @ + 1]
    /\ indexer_signal' = indexer_signal + 1
    /\ UNCHANGED <<file_paths_modified, is_timer_set, callbacks, indexer, fs_events>>
    /\ UNCHANGED <<trackerVars, indexVars, queryVars, docVars, inputVars, cacheVars>>

\* a timer task that sent its wakeup clears is_timer_set and ends
TimerClear ==
    /\ timers.sent > 0
    /\ timers' = [timers EXCEPT !.sent = @ - 1]
    /\ is_timer_set' = FALSE
    /\ UNCHANGED <<file_paths_modified, indexer_signal, callbacks, indexer, fs_events>>
    /\ UNCHANGED <<trackerVars, indexVars, queryVars, docVars, inputVars, cacheVars>>

\* handle_index receives a wakeup
IndexerRecv ==
    /\ indexer.pc = "recv"
    /\ indexer_signal > 0
    /\ indexer_signal' = indexer_signal - 1
    /\ indexer' = [indexer EXCEPT !.pc = "drain"]
    /\ UNCHANGED <<file_paths_modified, is_timer_set, timers, callbacks, fs_events>>
    /\ UNCHANGED <<trackerVars, indexVars, queryVars, docVars, inputVars, cacheVars>>

\* handle_index drains the queue, merges the events and reports the paths
IndexerDrain ==
    /\ indexer.pc = "drain"
    /\ \E file_events \in {[k \in 1..Len(file_paths_modified) |->
                              file_paths_modified[k].event]} :
        indexer' = [pc |-> "recv", batch |-> file_events,
                    report |-> HandleIndex(file_events)]
    /\ file_paths_modified' = <<>>
    /\ fs_events' = [fs_events EXCEPT !.handed =
                        @ \cup {file_paths_modified[k].id :
                                   k \in 1..Len(file_paths_modified)}]
    /\ UNCHANGED <<is_timer_set, indexer_signal, timers, callbacks>>
    /\ UNCHANGED <<trackerVars, indexVars, queryVars, docVars, inputVars, cacheVars>>

NextWatcher ==
    \/ \E c \in Callbacks : CallbackPush(c)
    \/ \E c \in Callbacks : CallbackSwap(c)
    \/ TimerSend
    \/ TimerClear
    \/ IndexerRecv
    \/ IndexerDrain

SpecWatcher == InitWatcher /\ [][NextWatcher]_vars

\* a callback thread finishes the call it is in, the runtime runs a spawned
\* timer task to its end, and the indexer task is polled when a wakeup waits;
\* nothing makes the file system produce another event
FairWatcher ==
    /\ \A c \in Callbacks : WF_vars(CallbackSwap(c))
    /\ WF_vars(TimerSend)
    /\ WF_vars(TimerClear)
    /\ WF_vars(IndexerRecv)
    /\ WF_vars(IndexerDrain)

SpecWatcherFair == InitWatcher /\ [][NextWatcher]_vars /\ FairWatcher

\* C34: every event pushed into the debouncer is eventually handed to the
\* indexer, even if no further event arrives
C34_PushedIsEventuallyHanded ==
    \A id \in 1..MaxFsEvents :
        (fs_events.pushed >= id) ~> (id \in fs_events.handed)

\* the timer tasks spawned and not yet ended
PendingTimers == timers.asleep + timers.sent

\* C35: under any interleaving of schedule_indexer_wakeup calls at most one
\* timer task is pending, and the events arriving while a timer is pending
\* get the single wakeup of that timer: every timer spawned sends one wakeup
\* and no wakeup comes from anywhere else
C35_OneTimerOneWakeup ==
    /\ PendingTimers <= 1
    /\ timers.woke = timers.spawned - timers.asleep
    /\ indexer_signal <= timers.woke

\* a burst: two events are queued behind one sleeping timer, both calls over
C35_Witness ==
    /\ Len(file_paths_modified) >= 2
    /\ \A c \in Callbacks : callbacks[c] = "idle"
    /\ timers.asleep = 1
    /\ timers.spawned = 1

\* the positions of the drained batch where path p has an event of a type
EventsOf(p, type) ==
    {k \in 1..Len(indexer.batch) :
        indexer.batch[k].type = type /\ p \in indexer.batch[k].paths}

\* the positions of the drained batch where path p has any event
Touches(p) == EventsOf(p, "Create") \cup EventsOf(p, "Remove") \cup EventsOf(p, "Modify")

\* C38 as stated: a path created and later removed within the batch is
\* reported neither as created nor as modified; a removed path not created
\* in the batch is reported as modified; every created path is in the
\* modified set after merging
C38_CreatedThenRemovedIsDropped ==
    \A p \in WatchedPaths :
        /\ (\E i \in EventsOf(p, "Create") : \E j \in EventsOf(p, "Remove") : i < j) =>
               (p \notin indexer.report.created /\ p \notin indexer.report.modified)
        /\ (EventsOf(p, "Remove") # {} /\ EventsOf(p, "Create") = {}) =>
               p \in indexer.report.modified
        /\ indexer.report.created \subseteq indexer.report.modified

\* C38 amended: a path created and later removed within the batch, with no
\* other removal of it in between and no later event of the batch naming it,
\* is reported neither as created nor as modified; a removed path not
\* created in the batch is reported as modified; every created path is in
\* the modified set after merging
C38_CreatedThenRemovedLastIsDropped ==
    \A p \in WatchedPaths :
        /\ (\E i \in EventsOf(p, "Create") : \E j \in EventsOf(p, "Remove") :
               /\ i < j
               /\ \A k \in EventsOf(p, "Remove") : ~(i < k /\ k < j)
               /\ \A k \in Touches(p) : k <= j) =>
               (p \notin indexer.report.created /\ p \notin indexer.report.modified)
        /\ (EventsOf(p, "Remove") # {} /\ EventsOf(p, "Create") = {}) =>
               p \in indexer.report.modified
        /\ indexer.report.created \subseteq indexer.report.modified

\* a batch that modifies, creates and then removes one path and removes the
\* other: the first is dropped, the second reported
C38_Witness ==
    /\ Len(indexer.batch) = 3
    /\ indexer.batch[1] = [type |-> "Modify", paths |-> {"a"}]
    /\ indexer.batch[2] = [type |-> "Create", paths |-> {"a"}]
    /\ indexer.batch[3] = [type |-> "Remove", paths |-> {"a", "b"}]
    /\ indexer.report = [created |-> {}, modified |-> {"b"}]

(***************************************************************************)
(* Claims about the responses and the entries of the search cache.         *)
(***************************************************************************)
\* C36: for a fixed index, query, page and page_size the response of a
\* request that found the query in the cache equals the response of a
\* request that did not
C36_HitAndMissAnswerAlike ==
    \A h1 \in Handlers : \A h2 \in Handlers :
        (/\ requests[h1].pc = "done" /\ requests[h1].status = "ok"
         /\ requests[h2].pc = "done" /\ requests[h2].status = "ok"
         /\ requests[h1].query = requests[h2].query
         /\ requests[h1].page = requests[h2].page
         /\ requests[h1].page_size = requests[h2].page_size
         /\ requests[h1].cached /\ ~requests[h2].cached) =>
            requests[h1].response = requests[h2].response

\* C37: under any interleaving of search requests, each index of a cached
\* entry's materialized map is below the length of its raw-result list and
\* holds the materialization of the raw result at that index
C37_CachedEntriesAreConsistent ==
    \A k \in 1..Len(search_cache) :
        \A i \in DOMAIN search_cache[k].raw_index_to_search_result :
            /\ i < Len(search_cache[k].raw_result)
            /\ search_cache[k].raw_index_to_search_result[i] =
                   SearchResultOf(search_cache[k].raw_result[i + 1]).v

(***************************************************************************)
(* Claims about the planner's panics and the permutation iterator.         *)
(***************************************************************************)
\* C39: for every regex without a capture group or a look-around assertion
\* planning ends with a candidate set and does not panic
C39_PlanningDoesNotPanic ==
    (plan.kind = "planned" /\ ~HasCaptureOrLook(plan.hir)) =>
        plan.status = "ok"

(***************************************************************************)
(* PermutationIterator call by call (permutation.rs).  plan holds the      *)
(* iterator: its limit, its current (<<>> is None, <<v>> is Some(v)), and  *)
(* as history the vectors its calls returned and the calls that returned   *)
(* None.                                                                   *)
(***************************************************************************)
MaxLimitLen == 3         \* longest limit vector
MaxLimit == 3            \* largest entry of a limit vector
MaxExhaustedCalls == 2   \* most calls made after the iterator returned None

\* the loop of next from position i down, comparing against limit[i] itself
RECURSIVE AdvanceUpToLimit(_, _, _)
AdvanceUpToLimit(next, limit, i) ==
    IF i = 0 THEN <<>>
    ELSE IF next[i] < limit[i]
         THEN <<[j \in 1..Len(next) |->
                    IF j = i THEN next[i] + 1 ELSE IF j > i THEN 0 ELSE next[j]]>>
         ELSE AdvanceUpToLimit([next EXCEPT ![i] = 0], limit, i - 1)

\* the loop of next from position i down: the first position below its limit
\* is raised and the positions after it are zeroed; without one current is None
RECURSIVE Advance(_, _, _)
Advance(next, limit, i) ==
    IF i = 0 THEN <<>>
    ELSE IF next[i] < limit[i] - 1
         THEN <<[j \in 1..Len(next) |->
                    IF j = i THEN next[i] + 1 ELSE IF j > i THEN 0 ELSE next[j]]>>
         ELSE Advance([next EXCEPT ![i] = 0], limit, i - 1)

\* PermutationIterator::new(limit), limit without a zero
PermutationIteratorNew(limit) ==
    [kind |-> "iterator", limit |-> limit,
     current |-> <<[i \in 1..Len(limit) |-> 0]>>,
     yielded |-> <<>>, exhausted |-> 0]

InitPermutation ==
    /\ commit_line_end = <<>>
    /\ commit_indexes = <<>>
    /\ provenance = <<>>
    /\ next_commit = 0
    /\ trk_last = [op |-> "none"]
    /\ IndexIdle
    /\ RepoIdle
    /\ DocIdle
    /\ InputIdle
    /\ CacheIdle
    /\ WatchIdle
    /\ materialized = [kind |-> "none"]
    /\ \E len \in 0..MaxLimitLen : \E limit \in [1..len -> 1..MaxLimit] :
        plan = PermutationIteratorNew(limit)

\* one call of next
PermutationNext ==
    /\ plan.kind = "iterator"
    /\ plan.exhausted < MaxExhaustedCalls
    /\ plan' = IF plan.current = <<>>
               THEN [plan EXCEPT !.exhausted = @ + 1]
               ELSE [plan EXCEPT
                        !.current = Advance(plan.current[1], plan.limit,
                                            Len(plan.limit)),
                        !.yielded = Append(@, plan.current[1])]
    /\ UNCHANGED <<trackerVars, indexVars, materialized, docVars, inputVars, cacheVars, watchVars>>

NextPermutation == PermutationNext

SpecPermutation == InitPermutation /\ [][NextPermutation]_vars

\* the product of the entries of a limit vector
RECURSIVE Product(_)
Product(limit) == IF Len(limit) = 0 THEN 1 ELSE limit[1] * Product(Tail(limit))

\* u comes before v in lexicographic order
LexLess(u, v) ==
    \E i \in 1..Len(u) : u[i] < v[i] /\ \A j \in 1..(i - 1) : u[j] = v[j]

\* C40: for a limit vector with all entries >= 1 the iterator yields each
\* vector v with 0 <= v[i] < limit[i] exactly once, in lexicographic order
\* from all zeros, the product of the limits in total, and returns None on
\* every later call
C40_EveryVectorOnceInOrder ==
    plan.kind = "iterator" =>
        /\ \A k \in 1..Len(plan.yielded) :
              /\ Len(plan.yielded[k]) = Len(plan.limit)
              /\ \A i \in 1..Len(plan.limit) :
                    0 <= plan.yielded[k][i] /\ plan.yielded[k][i] < plan.limit[i]
        /\ Len(plan.yielded) >= 1 =>
              plan.yielded[1] = [i \in 1..Len(plan.limit) |-> 0]
        /\ \A k \in 1..(Len(plan.yielded) - 1) :
              LexLess(plan.yielded[k], plan.yielded[k + 1])
        /\ Len(plan.yielded) <= Product(plan.limit)
        /\ (plan.current = <<>> \/ plan.exhausted > 0) =>
              Len(plan.yielded) = Product(plan.limit)

\* the iterator over <<2, 1, 3>> gave its six vectors and then None twice
C40_Witness ==
    /\ plan.kind = "iterator"
    /\ plan.limit = <<2, 1, 3>>
    /\ Len(plan.yielded) = 6
    /\ plan.yielded[4] = <<1, 0, 0>>
    /\ plan.exhausted = 2

====
